---- MODULE Spec2Model ----
(***************************************************************************)
(* Model of the icon manager (tools/icon_manager): content-bounds          *)
(* detection, the PNG and SVG renderers, the target scan of the main       *)
(* window and the generation run.                                          *)
(***************************************************************************)
EXTENDS Integers, Sequences, FiniteSets, TLC

VARIABLES
    image,      \* QImage handed to get_image_bounds / render_png_to_bounds
    renderer,   \* QSvgRenderer handed to the SVG functions
    bounds_in,  \* IconBounds handed to render_svg_cropped as svg_bounds
    target,     \* IconTarget handed to the renderers
    result,     \* value returned by the last call: [fn, val]
    disk,       \* the files on disk: path -> content
    targets,    \* IconManagerWindow.targets, one per table row
    checked,    \* the check box of each table row
    svg_input,  \* SvgInputWidget: svg_path, svg_renderer, svg_bounds
    pc,         \* position of _generate_icons: idle, check, render, finish
    selected,   \* local of _generate_icons
    i,          \* index of the loop over selected (from 1)
    errors,     \* local of _generate_icons
    svg_cache,  \* local of _generate_icons
    canceled,   \* progress.wasCanceled()
    attempts,   \* what the run did to each target it started, in order
    runs,       \* how many times the loop of _generate_icons was entered
    report      \* what _generate_icons told the user last

callVars == <<image, renderer, bounds_in, target, result>>
winVars == <<disk, targets, checked, svg_input>>
loopVars ==
    <<pc, selected, i, errors, svg_cache, canceled, attempts, runs>>
runVars ==
    <<pc, selected, i, errors, svg_cache, canceled, attempts, runs, report>>
vars == <<image, renderer, bounds_in, target, result,
          disk, targets, checked, svg_input,
          pc, selected, i, errors, svg_cache, canceled, attempts, runs,
          report>>

\* ------------------------------------------------------------------------
\* Bounds of the model
\* ------------------------------------------------------------------------

\* largest width / height of the exhaustively enumerated raster images
MaxW == 3
MaxH == 2
\* the generation loop is entered at most MaxRuns times in a session
MaxRuns == 1

\* ------------------------------------------------------------------------
\* Helpers
\* ------------------------------------------------------------------------

\* Python None, comparable with the records that stand for objects
None == [none |-> TRUE]

Min(S) == CHOOSE m \in S : \A k \in S : m <= k
Max(S) == CHOOSE m \in S : \A k \in S : m >= k

\* ------------------------------------------------------------------------
\* core/models.py
\* ------------------------------------------------------------------------

\* dataclass IconBounds; IconBounds() has every field 0
IconBounds(x, y, width, height, image_width, image_height) ==
    [x |-> x, y |-> y, width |-> width, height |-> height,
     image_width |-> image_width, image_height |-> image_height]

\* IconBounds.is_full
is_full(b) ==
    b.x = 0 /\ b.y = 0 /\ b.width = b.image_width /\ b.height = b.image_height

is_empty_height_only(b) == b.height = 0

\* IconBounds.is_empty
is_empty(b) == b.width = 0 \/ b.height = 0

\* a pathlib.Path: a project directory, a sub-directory and a file name
Path(base, dir, name) == [base |-> base, dir |-> dir, name |-> name]

\* dataclass IconTarget
IconTarget(name, width, height, path, category, bounds, override_path) ==
    [name |-> name, width |-> width, height |-> height, path |-> path,
     category |-> category, bounds |-> bounds,
     override_path |-> override_path]

\* ------------------------------------------------------------------------
\* QImage: null, or width x height pixels.  px maps the stored pixels
\* <<x, y>> to their alpha (0..255); a pixel px does not list has alpha 0
\* (the state after fill(transparent)).
\* ------------------------------------------------------------------------

NullImage ==
    [null |-> TRUE, width |-> 0, height |-> 0, px |-> <<>>, ops |-> <<>>]

Pixels(w, h) == (0 .. w - 1) \X (0 .. h - 1)

\* ops lists the painter calls that drew on the image after it was created
QImage(w, h, px) ==
    [null |-> FALSE, width |-> w, height |-> h, px |-> px, ops |-> <<>>]

\* QImage(width, height, Format_ARGB32) followed by fill(transparent): Qt
\* gives a null image when a dimension is not positive
NewCanvas(w, h) == IF w <= 0 \/ h <= 0 THEN NullImage ELSE QImage(w, h, <<>>)

\* a painter call on a canvas; a painter on a null image draws nothing
Paint(canvas, op) ==
    IF canvas.null THEN canvas
    ELSE [canvas EXCEPT !.ops = Append(@, op)]

\* (image.pixel(x, y) >> 24) & 0xFF
Alpha(img, p) == IF p \in DOMAIN img.px THEN img.px[p] ELSE 0

\* ------------------------------------------------------------------------
\* rendering/renderer.py: get_image_bounds
\* ------------------------------------------------------------------------

\* the literal of "if alpha > 10"
VISIBLE_ALPHA_THRESHOLD == 10

IsVisibleInclusive(alpha) == alpha >= VISIBLE_ALPHA_THRESHOLD

\* line 53: the test that makes a pixel count as visible
IsVisible(alpha) == alpha > VISIBLE_ALPHA_THRESHOLD

NoContentBoundsEmpty(width, height) == IconBounds(0, 0, 0, 0, width, height)

\* line 61: the bounds returned when no pixel is visible
NoContentBounds(width, height) == IconBounds(0, 0, width, height, width, height)

TightBoundsNoPlusOne(min_x, min_y, max_x, max_y, width, height) ==
    IconBounds(min_x, min_y, max_x - min_x, max_y - min_y, width, height)

TightBoundsFromOrigin(min_x, min_y, max_x, max_y, width, height) ==
    IconBounds(min_x, min_y, max_x + 1, max_y + 1, width, height)

\* lines 63-68: the box spanned by the running extremes
TightBounds(min_x, min_y, max_x, max_y, width, height) ==
    IconBounds(min_x, min_y, max_x - min_x + 1, max_y - min_y + 1, width, height)

\* The loop of lines 49-57 visits every pixel and updates the running
\* extremes at the visible ones; min starts at width/height, max at 0.
\* A pixel that px does not store has alpha 0 and never passes line 53, so
\* the visible pixels are found among the stored ones.
get_image_bounds(img) ==
    IF img.null
    THEN IconBounds(0, 0, 0, 0, 0, 0)
    ELSE LET width == img.width
             height == img.height
             visible == {p \in DOMAIN img.px : IsVisible(Alpha(img, p))}
             min_x == Min({width} \cup {p[1] : p \in visible})
             min_y == Min({height} \cup {p[2] : p \in visible})
             max_x == Max({0} \cup {p[1] : p \in visible})
             max_y == Max({0} \cup {p[2] : p \in visible})
         IN  IF max_x < min_x \/ max_y < min_y
             THEN NoContentBounds(width, height)
             ELSE TightBounds(min_x, min_y, max_x, max_y, width, height)

\* ------------------------------------------------------------------------
\* QSvgRenderer: a parsed document.  art maps the painted cells <<cx, cy>>
\* of the document's default_w x default_h coordinate grid to their alpha;
\* an invalid renderer paints nothing.
\* ------------------------------------------------------------------------

QSvgRenderer(valid, dw, dh, art) ==
    [valid |-> valid, default_w |-> dw, default_h |-> dh, art |-> art]

\* CeilDiv(a, b) = ceiling of a / b for b > 0
CeilDiv(a, b) == (a + b - 1) \div b

\* renderer.render(painter, QRectF(0, 0, w, h)) on a transparent canvas:
\* the document is stretched onto the rectangle, pixel (x, y) showing the
\* cell (x * default_w \div w, y * default_h \div h).
RenderedPixels(r, w, h) ==
    IF ~r.valid \/ r.default_w <= 0 \/ r.default_h <= 0
    THEN <<>>
    ELSE LET cover(c) ==
                 (CeilDiv(c[1] * w, r.default_w) ..
                      CeilDiv((c[1] + 1) * w, r.default_w) - 1)
                 \X (CeilDiv(c[2] * h, r.default_h) ..
                      CeilDiv((c[2] + 1) * h, r.default_h) - 1)
             painted == UNION {cover(c) : c \in DOMAIN r.art}
             cellOf(p) == <<(p[1] * r.default_w) \div w,
                            (p[2] * r.default_h) \div h>>
         IN  [p \in painted |-> r.art[cellOf(p)]]

\* default value of the parameter render_size
DEFAULT_RENDER_SIZE == 512

get_svg_content_bounds_unmeasured(r, render_size) ==
    IconBounds(0, 0, render_size, render_size, render_size, render_size)

\* lines 71-82
get_svg_content_bounds(r, render_size) ==
    get_image_bounds(QImage(render_size, render_size,
                            RenderedPixels(r, render_size, render_size)))

\* ------------------------------------------------------------------------
\* Exact arithmetic for the renderers' float expressions: a number is a
\* fraction [n, d] in lowest terms with d > 0.
\* ------------------------------------------------------------------------

RECURSIVE Gcd(_, _)
Gcd(a, b) == IF b = 0 THEN a ELSE Gcd(b, a % b)

Abs(a) == IF a < 0 THEN -a ELSE a

Rat(n, d) ==
    LET s == IF d < 0 THEN -1 ELSE 1
        g == Gcd(Abs(n), Abs(d))
    IN  [n |-> (s * n) \div g, d |-> (s * d) \div g]

RInt(k) == [n |-> k, d |-> 1]
RAdd(a, b) == Rat(a.n * b.d + b.n * a.d, a.d * b.d)
RSub(a, b) == Rat(a.n * b.d - b.n * a.d, a.d * b.d)
RMul(a, b) == Rat(a.n * b.n, a.d * b.d)
RDiv(a, b) == Rat(a.n * b.d, a.d * b.n)
RLe(a, b) == a.n * b.d <= b.n * a.d
RLt(a, b) == a.n * b.d < b.n * a.d
RMin(a, b) == IF RLe(a, b) THEN a ELSE b

IntOfHalvesNotHalved(twice) == twice

\* Python int() of a fraction: truncation toward zero
IntOfHalves(twice) ==
    IF twice >= 0 THEN twice \div 2 ELSE -((-twice) \div 2)

\* ------------------------------------------------------------------------
\* Qt: QSize.scaled(w, h, KeepAspectRatio) and QImage.scaled / QImage.copy
\* ------------------------------------------------------------------------

Size(w, h) == [width |-> w, height |-> h]

QSizeScaledIgnoreAspect(size, w, h) == Size(w, h)

QSizeScaledKeepAspect(size, w, h) ==
    IF size.width = 0 \/ size.height = 0
    THEN Size(w, h)
    ELSE LET rw == (h * size.width) \div size.height
         IN  IF rw <= w
             THEN Size(rw, h)
             ELSE Size(w, (w * size.height) \div size.width)

\* the size of the image img.scaled(w, h, KeepAspectRatio, ...) returns for
\* a non-null img of the given size: an empty requested size gives a null
\* image, whose width and height are 0; otherwise QImage::scaled raises
\* each side of the new size to at least 1
ScaledSize(size, w, h) ==
    LET s == QSizeScaledKeepAspect(size, w, h)
    IN  IF w <= 0 \/ h <= 0
        THEN Size(0, 0)
        ELSE Size(Max({s.width, 1}), Max({s.height, 1}))

Rect(x, y, w, h) == [x |-> x, y |-> y, width |-> w, height |-> h]

\* ------------------------------------------------------------------------
\* rendering/renderer.py: render_png_to_bounds, render_svg_cropped
\* ------------------------------------------------------------------------

DestRectWholeCanvas(t) == Rect(0, 0, t.width, t.height)

\* lines 111-116 and 200-205: where to render in the target image
DestRect(t) ==
    IF t.bounds # None /\ ~is_full(t.bounds)
    THEN Rect(t.bounds.x, t.bounds.y, t.bounds.width, t.bounds.height)
    ELSE Rect(0, 0, t.width, t.height)

CanvasOfDestRect(t) == NewCanvas(DestRect(t).width, DestRect(t).height)

\* lines 105-106 and 193-194: the output image
TargetCanvas(t) == NewCanvas(t.width, t.height)

HasPaddingIgnoringEmpty(b) == ~is_full(b)

\* lines 207 and 120: the test that selects the cropping branch
HasPadding(b) == ~is_full(b) /\ ~is_empty(b)

\* lines 118-124: the part of the source that is scaled
CropRect(source) ==
    LET source_bounds == get_image_bounds(source)
    IN  IF HasPadding(source_bounds)
        THEN Rect(source_bounds.x, source_bounds.y,
                  source_bounds.width, source_bounds.height)
        ELSE Rect(0, 0, source.width, source.height)

\* lines 111-140: the composition of a decodable source
PngComposite(source, t) ==
    LET canvas == TargetCanvas(t)
        dest_rect == DestRect(t)
        crop == CropRect(source)
        scaled == ScaledSize(Size(crop.width, crop.height),
                             dest_rect.width, dest_rect.height)
        offset_x2 == 2 * dest_rect.x + (dest_rect.width - scaled.width)
        offset_y2 == 2 * dest_rect.y + (dest_rect.height - scaled.height)
    IN  IF scaled.width = 0
        THEN canvas
        ELSE Paint(canvas,
                   [op |-> "drawImage",
                    x |-> IntOfHalves(offset_x2),
                    y |-> IntOfHalves(offset_y2),
                    width |-> scaled.width,
                    height |-> scaled.height,
                    crop |-> crop])

render_png_returns_source(source, t) ==
    IF source.null THEN source ELSE PngComposite(source, t)

\* lines 103-140
render_png_to_bounds(source, t) ==
    IF source.null THEN TargetCanvas(t) ELSE PngComposite(source, t)

\* lines 208-230: the locals of the cropping branch
SvgCropLocals(r, dest_rect, svg_bounds) ==
    LET svg_size ==
            IF r.default_w <= 0 \/ r.default_h <= 0
            THEN Size(svg_bounds.image_width, svg_bounds.image_height)
            ELSE Size(r.default_w, r.default_h)
        scale_x == Rat(svg_size.width, svg_bounds.image_width)
        scale_y == Rat(svg_size.height, svg_bounds.image_height)
        content_x == RMul(RInt(svg_bounds.x), scale_x)
        content_y == RMul(RInt(svg_bounds.y), scale_y)
        content_w == RMul(RInt(svg_bounds.width), scale_x)
        content_h == RMul(RInt(svg_bounds.height), scale_y)
        scale == RMin(RDiv(RInt(dest_rect.width), content_w),
                      RDiv(RInt(dest_rect.height), content_h))
        scaled_w == RMul(content_w, scale)
        scaled_h == RMul(content_h, scale)
    IN  [svg_size |-> svg_size,
         content_x |-> content_x, content_y |-> content_y,
         content_w |-> content_w, content_h |-> content_h,
         scale |-> scale,
         scaled_w |-> scaled_w, scaled_h |-> scaled_h,
         offset_x |-> RAdd(RInt(dest_rect.x),
                           RDiv(RSub(RInt(dest_rect.width), scaled_w),
                                RInt(2))),
         offset_y |-> RAdd(RInt(dest_rect.y),
                           RDiv(RSub(RInt(dest_rect.height), scaled_h),
                                RInt(2)))]

\* lines 232-238: the painter's transform and the rectangle handed to
\* renderer.render in the cropping branch
SvgCropOp(r, dest_rect, svg_bounds) ==
    LET l == SvgCropLocals(r, dest_rect, svg_bounds)
    IN  [op |-> "render",
         offset_x |-> l.offset_x, offset_y |-> l.offset_y,
         scale |-> l.scale,
         content_x |-> l.content_x, content_y |-> l.content_y,
         rect |-> Rect(0, 0, l.svg_size.width, l.svg_size.height)]

SvgDirectOpAtOrigin(dest_rect) ==
    [op |-> "render",
     offset_x |-> RInt(0), offset_y |-> RInt(0),
     scale |-> RInt(1),
     content_x |-> RInt(0), content_y |-> RInt(0),
     rect |-> Rect(0, 0, dest_rect.width, dest_rect.height)]

\* line 241: renderer.render(painter, dest_rect) under the identity
SvgDirectOp(dest_rect) ==
    [op |-> "render",
     offset_x |-> RInt(0), offset_y |-> RInt(0),
     scale |-> RInt(1),
     content_x |-> RInt(0), content_y |-> RInt(0),
     rect |-> dest_rect]

\* lines 186-244; an invalid renderer paints nothing
render_svg_cropped(r, t, svg_bounds) ==
    LET canvas == TargetCanvas(t)
        dest_rect == DestRect(t)
    IN  IF ~r.valid
        THEN canvas
        ELSE IF HasPadding(svg_bounds)
        THEN Paint(canvas, SvgCropOp(r, dest_rect, svg_bounds))
        ELSE Paint(canvas, SvgDirectOp(dest_rect))

\* ------------------------------------------------------------------------
\* Inputs of the rendering functions
\* ------------------------------------------------------------------------

\* alpha values on both sides of the threshold
GridAlphas == {VISIBLE_ALPHA_THRESHOLD, VISIBLE_ALPHA_THRESHOLD + 1}

\* every image of at most MaxW x MaxH pixels over GridAlphas
GridImages ==
    UNION {{QImage(w, h, px) : px \in [Pixels(w, h) -> GridAlphas]} :
           <<w, h>> \in (1 .. MaxW) \X (1 .. MaxH)}

\* an opaque square on rows [10, 50) and columns [20, 60)
SquareImage == QImage(64, 64, [p \in (20 .. 59) \X (10 .. 49) |-> 255])

\* one opaque pixel at (5, 7)
DotImage == QImage(16, 16, [p \in Pixels(16, 16) |->
                               IF p = <<5, 7>> THEN 255 ELSE 0])

\* a faint fringe (alpha 1..10) around one visible pixel
FringeImage == QImage(5, 5, [p \in Pixels(5, 5) |->
                                IF p = <<2, 2>> THEN 11
                                ELSE IF p[1] = 0 THEN 10 ELSE p[2] + 1])

\* a 108 x 108 adaptive layer whose content is the 40 x 40 block at (34, 34)
LayerImage == QImage(108, 108, [p \in (34 .. 73) \X (34 .. 73) |-> 255])

\* a 48 x 48 icon with every pixel opaque
FullImage == QImage(48, 48, [p \in Pixels(48, 48) |-> 255])

\* a 1 x 100 opaque column: its proportional width in a square rounds to 0
SliverImage == QImage(1, 100, [p \in Pixels(1, 100) |-> 255])

ExampleImages ==
    {NullImage, QImage(4, 3, <<>>), SquareImage, DotImage, FringeImage,
     LayerImage, FullImage, SliverImage}

Images == GridImages \cup ExampleImages

InvalidSvg == QSvgRenderer(FALSE, 0, 0, <<>>)

\* a 64 x 64 document painted corner to corner
FullSvg == QSvgRenderer(TRUE, 64, 64, (<<0, 0>> :> 255) @@ (<<63, 63>> :> 255))

\* a 64 x 64 document whose artwork keeps 16 units of padding on each side
PaddedSvg ==
    QSvgRenderer(TRUE, 64, 64, (<<16, 16>> :> 255) @@ (<<47, 47>> :> 255))

\* a 64 x 32 document with artwork in its left half and a faint shadow
WideSvg ==
    QSvgRenderer(TRUE, 64, 32,
                 (<<0, 8>> :> 255) @@ (<<31, 23>> :> 200) @@ (<<60, 30>> :> 6))

\* a valid document that paints nothing, without a default size
BlankSvg == QSvgRenderer(TRUE, 0, 0, <<>>)

\* a 64 x 32 document painted corner to corner
BannerSvg ==
    QSvgRenderer(TRUE, 64, 32, (<<0, 0>> :> 255) @@ (<<63, 31>> :> 255))

Renderers == {InvalidSvg, FullSvg, PaddedSvg, WideSvg, BlankSvg, BannerSvg}

NoResult == [fn |-> "", val |-> None]

\* report: the dialog _generate_icons showed, and the K and N of its
\* "Generated K/N icons" status text
Report(dialog, generated, total) ==
    [dialog |-> dialog, generated |-> generated, total |-> total]

NoReport == Report("", 0, 0)

\* SvgInputWidget.__init__
NoSvgInput == [svg_path |-> None, svg_renderer |-> None, svg_bounds |-> None]

\* the specifications of the rendering functions run without a window
NoWindow ==
    /\ disk = <<>>
    /\ targets = <<>>
    /\ checked = <<>>
    /\ svg_input = NoSvgInput
    /\ pc = "idle"
    /\ selected = <<>>
    /\ i = 0
    /\ errors = <<>>
    /\ svg_cache = <<>>
    /\ canceled = FALSE
    /\ attempts = <<>>
    /\ runs = 0
    /\ report = NoReport

\* ------------------------------------------------------------------------
\* Specification SpecBounds: get_image_bounds and get_svg_content_bounds
\* applied to the inputs above
\* ------------------------------------------------------------------------

InitBounds ==
    /\ \/ image \in Images /\ renderer = None
       \/ image = None /\ renderer \in Renderers
    /\ bounds_in = None
    /\ target = None
    /\ result = NoResult
    /\ NoWindow

CallGetImageBounds ==
    /\ image # None
    /\ result = NoResult
    /\ result' = [fn |-> "get_image_bounds", val |-> get_image_bounds(image)]
    /\ UNCHANGED <<image, renderer, bounds_in, target>>
    /\ UNCHANGED <<winVars, runVars>>

CallGetSvgContentBounds ==
    /\ renderer # None
    /\ result = NoResult
    /\ result' = [fn |-> "get_svg_content_bounds",
                  val |-> get_svg_content_bounds(renderer, DEFAULT_RENDER_SIZE)]
    /\ UNCHANGED <<image, renderer, bounds_in, target>>
    /\ UNCHANGED <<winVars, runVars>>

NextBounds == CallGetImageBounds \/ CallGetSvgContentBounds

SpecBounds == InitBounds /\ [][NextBounds]_vars

\* ------------------------------------------------------------------------
\* Specification SpecRender: render_png_to_bounds and render_svg_cropped
\* applied to a source and a target
\* ------------------------------------------------------------------------

\* targets as _add_icon builds them: square, with the bounds measured on
\* the icon file found at the target path, or None when it does not decode
RenderTargets ==
    {IconTarget("ic_launcher.png", size, size,
                Path("android_res", "mipmap-mdpi", "ic_launcher.png"),
                "android", b, None) :
        size \in {48, 108, 192},
        b \in {None} \cup
              {get_image_bounds(im) : im \in {LayerImage, FullImage, DotImage}}}

\* bounds a caller may hand to render_svg_cropped: measured ones, the
\* default IconBounds(), boxes with padding, and boxes of zero width or
\* zero height inside a 512 x 512 image
SvgBoundsArgs ==
    {get_svg_content_bounds(r, DEFAULT_RENDER_SIZE) : r \in Renderers}
    \cup {IconBounds(0, 0, 0, 0, 0, 0),
          IconBounds(102, 102, 308, 308, 512, 512),
          IconBounds(0, 200, 512, 100, 512, 512),
          IconBounds(100, 100, 0, 50, 512, 512),
          IconBounds(100, 100, 50, 0, 512, 512)}

InitRender ==
    /\ \/ image \in Images /\ renderer = None /\ bounds_in = None
       \/ image = None /\ renderer \in Renderers /\ bounds_in \in SvgBoundsArgs
    /\ target \in RenderTargets
    /\ result = NoResult
    /\ NoWindow

CallRenderPngToBounds ==
    /\ image # None
    /\ result = NoResult
    /\ result' = [fn |-> "render_png_to_bounds",
                  val |-> render_png_to_bounds(image, target)]
    /\ UNCHANGED <<image, renderer, bounds_in, target>>
    /\ UNCHANGED <<winVars, runVars>>

CallRenderSvgCropped ==
    /\ renderer # None
    /\ result = NoResult
    /\ result' = [fn |-> "render_svg_cropped",
                  val |-> render_svg_cropped(renderer, target, bounds_in)]
    /\ UNCHANGED <<image, renderer, bounds_in, target>>
    /\ UNCHANGED <<winVars, runVars>>

NextRender == CallRenderPngToBounds \/ CallRenderSvgCropped

SpecRender == InitRender /\ [][NextRender]_vars

\* ------------------------------------------------------------------------
\* Files.  A file decodes as a raster (QImage(str(path))) or parses as a
\* vector (QSvgRenderer(str(path))), or neither; Contents.json holds the
\* list of its "images" entries.
\* ------------------------------------------------------------------------

PngFile(img) == [image |-> img, svg |-> InvalidSvg, json |-> <<>>]
SvgFile(r) == [image |-> NullImage, svg |-> r, json |-> <<>>]
GarbageFile == [image |-> NullImage, svg |-> InvalidSvg, json |-> <<>>]
JsonFile(entries) == [image |-> NullImage, svg |-> InvalidSvg, json |-> entries]

\* path.exists()
Exists(d, path) == path \in DOMAIN d

\* base_path.exists(): a directory exists when it holds a file
BaseExists(d, base) == \E q \in DOMAIN d : q.base = base

\* QImage(str(path)): null when the file is missing or does not decode
LoadImage(d, path) == IF Exists(d, path) THEN d[path].image ELSE NullImage

\* QSvgRenderer(str(path)): invalid when the file is missing or does not parse
LoadSvg(d, path) == IF Exists(d, path) THEN d[path].svg ELSE InvalidSvg

\* Path.suffix.lower()
SuffixLower(path) ==
    CASE path.name \in {"good.svg", "bad.svg"} -> ".svg"
      [] path.name = "Contents.json" -> ".json"
      [] OTHER -> ".png"

\* ------------------------------------------------------------------------
\* core/constants.py
\* ------------------------------------------------------------------------

MIPMAP_SIZES ==
    << [dir |-> "mipmap-mdpi", size |-> 48],
       [dir |-> "mipmap-hdpi", size |-> 72],
       [dir |-> "mipmap-xhdpi", size |-> 96],
       [dir |-> "mipmap-xxhdpi", size |-> 144],
       [dir |-> "mipmap-xxxhdpi", size |-> 192] >>

ADAPTIVE_ICON_SIZES ==
    << [dir |-> "mipmap-mdpi", size |-> 108],
       [dir |-> "mipmap-hdpi", size |-> 162],
       [dir |-> "mipmap-xhdpi", size |-> 216],
       [dir |-> "mipmap-xxhdpi", size |-> 324],
       [dir |-> "mipmap-xxxhdpi", size |-> 432] >>

ANDROID_LEGACY_ICONS == <<"ic_launcher.png", "ic_launcher_round.png">>

ANDROID_ADAPTIVE_ICONS ==
    <<"ic_launcher_foreground.png", "ic_launcher_background.png">>

ANDROID_ICON_FILES == ANDROID_LEGACY_ICONS \o ANDROID_ADAPTIVE_ICONS

\* ------------------------------------------------------------------------
\* ui/main_window.py: the scan that builds the targets
\* ------------------------------------------------------------------------

\* lines 274-285: the target _add_icon appends
AddIcon(d, path, name, size, category) ==
    LET img == LoadImage(d, path)
        bounds == IF ~img.null THEN get_image_bounds(img) ELSE None
    IN  IconTarget(name, size, size, path, category, bounds, None)

\* lines 230-239
ScanAndroid(d, base, category) ==
    LET nf == Len(ANDROID_ICON_FILES)
        cand == [k \in 1 .. Len(MIPMAP_SIZES) * nf |->
                    LET m == MIPMAP_SIZES[((k - 1) \div nf) + 1]
                        f == ANDROID_ICON_FILES[((k - 1) % nf) + 1]
                    IN  [path |-> Path(base, m.dir, f), name |-> f,
                         size |-> m.size]]
        found == SelectSeq(cand, LAMBDA c : Exists(d, c.path))
    IN  [k \in 1 .. Len(found) |->
            AddIcon(d, found[k].path, found[k].name, found[k].size, category)]

\* the order of the file names used below, as Python compares strings
NameOrder ==
    <<"AppIcon-20.png", "AppIcon-83.5@2x.png", "a.png", "b.png", "ghost.png">>

NameRank(name) == CHOOSE k \in DOMAIN NameOrder : NameOrder[k] = name

\* key of icons.sort: (size, filename)
IconBefore(a, b) ==
    \/ a.size < b.size
    \/ a.size = b.size /\ NameRank(a.name) < NameRank(b.name)

RECURSIVE SortIcons(_)
SortIcons(icons) ==
    IF icons = {}
    THEN <<>>
    ELSE LET first == CHOOSE a \in icons :
                          \A b \in icons \ {a} : IconBefore(a, b)
         IN  <<first>> \o SortIcons(icons \ {first})

\* lines 241-270.  An entry of Contents.json is [filename, size2, scale]:
\* size2 is twice the number before the "x" of "size" (so that 83.5 is
\* exact) and scale the number of "scale"; int() truncates.
ScanIos(d, base, category) ==
    LET contents_path == Path(base, "", "Contents.json")
        entries == d[contents_path].json
        listed == {[name |-> e.filename,
                    size |-> (e.size2 * e.scale) \div 2,
                    path |-> Path(base, "", e.filename)] :
                   e \in {e \in {entries[k] : k \in DOMAIN entries} :
                             /\ e.filename # ""
                             /\ Exists(d, Path(base, "", e.filename))}}
        globbed == {[name |-> q.name,
                     size |-> LoadImage(d, q).width,
                     path |-> q] :
                    q \in {q \in DOMAIN d :
                              /\ q.base = base
                              /\ SuffixLower(q) = ".png"
                              /\ ~LoadImage(d, q).null}}
        icons == SortIcons(IF Exists(d, contents_path) THEN listed ELSE globbed)
    IN  [k \in 1 .. Len(icons) |->
            AddIcon(d, icons[k].path, icons[k].name, icons[k].size, category)]

\* lines 213-218
Categories ==
    << [id |-> "android", base |-> "android_res", android |-> TRUE],
       [id |-> "ios", base |-> "ios_appiconset", android |-> FALSE],
       [id |-> "assets_android", base |-> "assets_android", android |-> TRUE],
       [id |-> "assets_ios", base |-> "assets_ios", android |-> FALSE] >>

ScanCategory(d, c) ==
    IF ~BaseExists(d, c.base) THEN <<>>
    ELSE IF c.android THEN ScanAndroid(d, c.base, c.id)
    ELSE ScanIos(d, c.base, c.id)

\* lines 208-228
ScanTargets(d) ==
    ScanCategory(d, Categories[1]) \o ScanCategory(d, Categories[2])
        \o ScanCategory(d, Categories[3]) \o ScanCategory(d, Categories[4])

\* ------------------------------------------------------------------------
\* The projects the window is opened on
\* ------------------------------------------------------------------------

GoodSvgPath == Path("art", "", "good.svg")
BadSvgPath == Path("art", "", "bad.svg")
GoodPngPath == Path("art", "", "good.png")
BadPngPath == Path("art", "", "bad.png")
MissingPath == Path("art", "", "ghost.png")

\* the image with the given pixels opaque and all others transparent
Dots(w, h, pts) == QImage(w, h, [p \in pts |-> 255])

ArtFiles ==
    (GoodSvgPath :> SvgFile(PaddedSvg))
    @@ (BadSvgPath :> GarbageFile)
    @@ (GoodPngPath :> PngFile(Dots(20, 10, {<<2, 2>>, <<17, 7>>})))
    @@ (BadPngPath :> GarbageFile)

LauncherPath == Path("android_res", "mipmap-mdpi", "ic_launcher.png")
ForegroundPath ==
    Path("android_res", "mipmap-mdpi", "ic_launcher_foreground.png")
RoundPath == Path("android_res", "mipmap-xxxhdpi", "ic_launcher_round.png")

\* a legacy icon of 48 x 48 pixels, an adaptive foreground layer of
\* 108 x 108 pixels with its content in the safe zone, and a file that
\* does not decode
AndroidProject ==
    ArtFiles
    @@ (LauncherPath :> PngFile(Dots(48, 48, {<<0, 0>>, <<47, 47>>})))
    @@ (ForegroundPath :> PngFile(Dots(108, 108, {<<34, 34>>, <<73, 73>>})))
    @@ (RoundPath :> GarbageFile)

Icon20Path == Path("ios_appiconset", "", "AppIcon-20.png")
Icon83Path == Path("ios_appiconset", "", "AppIcon-83.5@2x.png")
AssetAPath == Path("assets_ios", "", "a.png")

\* an asset catalog with Contents.json and an assets folder without one
IosProject ==
    ArtFiles
    @@ (Path("ios_appiconset", "", "Contents.json") :>
            JsonFile(<< [filename |-> "", size2 |-> 120, scale |-> 1],
                        [filename |-> "AppIcon-83.5@2x.png", size2 |-> 167,
                         scale |-> 2],
                        [filename |-> "ghost.png", size2 |-> 58, scale |-> 3],
                        [filename |-> "AppIcon-20.png", size2 |-> 40,
                         scale |-> 1] >>))
    @@ (Icon20Path :> PngFile(Dots(20, 20, {<<0, 0>>, <<19, 19>>})))
    @@ (Icon83Path :> PngFile(Dots(167, 167, {<<10, 12>>, <<150, 140>>})))
    @@ (AssetAPath :> PngFile(Dots(40, 40, {<<5, 5>>})))
    @@ (Path("assets_ios", "", "b.png") :> GarbageFile)

Projects == {AndroidProject, IosProject}

\* core/models.py Config: default_svg and overrides (rel_path -> path)
Config(default_svg, overrides) ==
    [default_svg |-> default_svg, overrides |-> overrides]

Configs ==
    {Config(None, <<>>),
     Config(GoodSvgPath,
            (LauncherPath :> BadPngPath) @@ (Icon20Path :> BadSvgPath)
            @@ (ForegroundPath :> MissingPath)
            @@ (AssetAPath :> GoodSvgPath))}

\* ------------------------------------------------------------------------
\* ui/widgets.py and ui/main_window.py: the window
\* ------------------------------------------------------------------------

\* SvgInputWidget.set_svg (lines 277-285): the widget after the call
SetSvg(input, d, path) ==
    LET r == LoadSvg(d, path)
    IN  IF ~r.valid
        THEN input
        ELSE [svg_path |-> path, svg_renderer |-> r,
              svg_bounds |-> get_svg_content_bounds(r, DEFAULT_RENDER_SIZE)]

\* _apply_config, lines 334-339
ConfigSvgInput(d, cfg) ==
    IF cfg.default_svg # None /\ Exists(d, cfg.default_svg)
    THEN SetSvg(NoSvgInput, d, cfg.default_svg)
    ELSE NoSvgInput

\* _apply_config, lines 341-349
ConfigTargets(d, cfg, ts) ==
    [k \in DOMAIN ts |->
        IF /\ ts[k].path \in DOMAIN cfg.overrides
           /\ Exists(d, cfg.overrides[ts[k].path])
        THEN [ts[k] EXCEPT !.override_path = cfg.overrides[ts[k].path]]
        ELSE ts[k]]

\* IconTarget.override_is_png
override_is_png(t) ==
    t.override_path # None /\ SuffixLower(t.override_path) = ".png"

Rows == DOMAIN targets

\* IconManagerWindow.__init__: scan, then apply the saved configuration;
\* _add_icon checks every row
Init ==
    /\ image = None /\ renderer = None /\ bounds_in = None /\ target = None
    /\ result = NoResult
    /\ disk \in Projects
    /\ \E cfg \in Configs :
           /\ targets = ConfigTargets(disk, cfg, ScanTargets(disk))
           /\ svg_input = ConfigSvgInput(disk, cfg)
    /\ checked = [k \in DOMAIN targets |-> TRUE]
    /\ pc = "idle"
    /\ selected = <<>>
    /\ i = 0
    /\ errors = <<>>
    /\ svg_cache = <<>>
    /\ canceled = FALSE
    /\ attempts = <<>>
    /\ runs = 0
    /\ report = NoReport

\* the user clicks the check box of a row
ToggleCheck(row) ==
    /\ pc = "idle"
    /\ checked' = [checked EXCEPT ![row] = ~@]
    /\ report' = NoReport
    /\ UNCHANGED <<callVars, disk, targets, svg_input, loopVars>>

\* _browse_svg (lines 381-394) with the file the dialog returns
BrowseSvg(path) ==
    /\ pc = "idle"
    /\ svg_input' = SetSvg(svg_input, disk, path)
    /\ report' = IF LoadSvg(disk, path).valid THEN NoReport
                  ELSE Report("Invalid SVG", 0, 0)
    /\ UNCHANGED <<callVars, disk, targets, checked, loopVars>>

\* an override assigned without loading the file
SetOverrideUnvalidated(rows, path) ==
    /\ pc = "idle"
    /\ targets' =
           IF rows = {} \/ path = None
           THEN targets
           ELSE [k \in DOMAIN targets |->
                    IF k \in rows
                    THEN [targets[k] EXCEPT !.override_path = path]
                    ELSE targets[k]]
    /\ report' = IF rows = {} THEN Report("No Selection", 0, 0) ELSE NoReport
    /\ UNCHANGED <<callVars, disk, checked, svg_input, loopVars>>

\* _set_override (lines 396-436) with the selected rows and the file the
\* dialog returns (None when the dialog is cancelled)
SetOverride(rows, path) ==
    /\ pc = "idle"
    /\ LET valid == IF SuffixLower(path) = ".png"
                    THEN ~LoadImage(disk, path).null
                    ELSE LoadSvg(disk, path).valid
       IN  /\ targets' =
                  IF rows = {} \/ path = None \/ ~valid
                  THEN targets
                  ELSE [k \in DOMAIN targets |->
                           IF k \in rows
                           THEN [targets[k] EXCEPT !.override_path = path]
                           ELSE targets[k]]
           /\ report' = IF rows = {} THEN Report("No Selection", 0, 0)
                         ELSE IF path = None \/ valid THEN NoReport
                         ELSE Report("Invalid File", 0, 0)
    /\ UNCHANGED <<callVars, disk, checked, svg_input, loopVars>>

\* _clear_override (lines 438-454)
ClearOverride(rows) ==
    /\ pc = "idle"
    /\ targets' = [k \in DOMAIN targets |->
                      IF k \in rows
                      THEN [targets[k] EXCEPT !.override_path = None]
                      ELSE targets[k]]
    /\ report' = NoReport
    /\ UNCHANGED <<callVars, disk, checked, svg_input, loopVars>>

\* ComparisonWidget._render_preview_image (ui/widgets.py lines 165-188):
\* the preview of a target, None when no valid source is available.  The
\* widget holds the renderer and the bounds of the default SVG that
\* set_svg was given (main_window.py lines 338 and 390).
render_preview_image(d, t, input) ==
    IF override_is_png(t)
    THEN LET source == LoadImage(d, t.override_path)
         IN  IF source.null THEN None ELSE render_png_to_bounds(source, t)
    ELSE IF t.override_path # None
    THEN LET r == LoadSvg(d, t.override_path)
         IN  IF ~r.valid
             THEN None
             ELSE render_svg_cropped(
                      r, t, get_svg_content_bounds(r, DEFAULT_RENDER_SIZE))
    ELSE IF input.svg_renderer # None /\ input.svg_renderer.valid
    THEN render_svg_cropped(input.svg_renderer, t, input.svg_bounds)
    ELSE None

\* ------------------------------------------------------------------------
\* ui/main_window.py: _generate_icons
\* ------------------------------------------------------------------------

\* _get_selected_targets (lines 766-774): the checked rows, in table order
GetSelectedTargets ==
    LET rows == SelectSeq([k \in DOMAIN targets |-> k], LAMBDA k : checked[k])
    IN  [j \in 1 .. Len(rows) |-> targets[rows[j]]]

\* a guard that finds every target supplied with a source
MissingNever(sel) == {}

\* line 782
Missing(sel) ==
    {j \in DOMAIN sel :
        sel[j].override_path = None /\ svg_input.svg_renderer = None}

\* lines 777-819: the guards, the confirmation dialog and the set-up of
\* the loop; reply is the button of the confirmation dialog
StartRun(reply) ==
    /\ pc = "idle"
    /\ LET sel == GetSelectedTargets
       IN  IF sel = <<>>
           THEN /\ report' = Report("No Targets", 0, 0)
                /\ UNCHANGED <<pc, selected, i, errors, svg_cache, canceled,
                               attempts, runs>>
           ELSE IF Missing(sel) # {}
           THEN /\ report' = Report("Missing Source", 0, 0)
                /\ UNCHANGED <<pc, selected, i, errors, svg_cache, canceled,
                               attempts, runs>>
           ELSE IF reply # "Yes"
           THEN /\ report' = Report("Confirm Replace", 0, 0)
                /\ UNCHANGED <<pc, selected, i, errors, svg_cache, canceled,
                               attempts, runs>>
           ELSE /\ pc' = "check"
                /\ selected' = sel
                /\ i' = 1
                /\ errors' = <<>>
                /\ svg_cache' = <<>>
                /\ canceled' = FALSE
                /\ attempts' = <<>>
                /\ runs' = runs + 1
                /\ report' = NoReport
    /\ UNCHANGED <<callVars, winVars>>

\* the Generate button, pressed at most MaxRuns times in a session
GenerateIcons(reply) ==
    /\ runs < MaxRuns
    /\ StartRun(reply)

LoopHeadIgnoresCancel ==
    IF i > Len(selected) THEN "finish" ELSE "render"

\* lines 821-823: the head of the loop, where the next pc is decided
LoopHead ==
    IF i > Len(selected) \/ canceled THEN "finish" ELSE "render"

CheckCancel ==
    /\ pc = "check"
    /\ pc' = LoopHead
    /\ UNCHANGED <<callVars, winVars, selected, i, errors, svg_cache,
                   canceled, attempts, runs, report>>

\* lines 825-827: the progress dialog handles the events that are pending
\* before the target is rendered; a click on Cancel sets the flag
Cancel ==
    /\ pc = "render"
    /\ ~canceled
    /\ canceled' = TRUE
    /\ UNCHANGED <<callVars, winVars, pc, selected, i, errors, svg_cache,
                   attempts, runs, report>>

\* a cache with one slot, serving whichever vector was loaded first
SvgCacheAfterSingleSlot(cache, d, svg_path) ==
    IF DOMAIN cache # {}
    THEN (svg_path :> cache[CHOOSE p \in DOMAIN cache : TRUE]) @@ cache
    ELSE LET r == LoadSvg(d, svg_path)
         IN  (svg_path :> [renderer |-> r,
                           bounds |-> get_svg_content_bounds(
                                          r, DEFAULT_RENDER_SIZE)])

\* get_svg_data (lines 812-817): the cache after the call
SvgCacheAfter(cache, d, svg_path) ==
    IF svg_path \in DOMAIN cache
    THEN cache
    ELSE LET r == LoadSvg(d, svg_path)
         IN  (svg_path :> [renderer |-> r,
                           bounds |-> get_svg_content_bounds(
                                          r, DEFAULT_RENDER_SIZE)])
             @@ cache

SvgPathOfDefaultFirst(t) ==
    IF svg_input.svg_path # None THEN svg_input.svg_path ELSE t.override_path

\* line 834
SvgPathOf(t) ==
    IF t.override_path # None THEN t.override_path ELSE svg_input.svg_path

\* lines 830-836: the image rendered for a target
RenderTarget(t, cache) ==
    IF override_is_png(t)
    THEN render_png_to_bounds(LoadImage(disk, t.override_path), t)
    ELSE LET data == cache[SvgPathOf(t)]
         IN  render_svg_cropped(data.renderer, t, data.bounds)

\* the sources whose content bounds are computed while a target is
\* rendered: render_png_to_bounds scans the decoded override (renderer.py
\* line 119), get_svg_data measures a vector that is not yet in the cache
MeasuredFor(t, cache) ==
    IF override_is_png(t)
    THEN IF LoadImage(disk, t.override_path).null
         THEN {}
         ELSE {t.override_path}
    ELSE IF SvgPathOf(t) \in DOMAIN cache THEN {} ELSE {SvgPathOf(t)}

\* what the file system does to mkdir and save
FsOutcomes == {"ok", "mkdir_raises", "save_false"}

\* lines 838-843: the errors list after the target
ErrorsAfter(errs, t, img, fs) ==
    IF fs = "mkdir_raises"
    THEN Append(errs, [path |-> t.path, text |-> "exception"])
    ELSE IF fs = "save_false" \/ img.null
    THEN Append(errs, [path |-> t.path, text |-> "Failed to save"])
    ELSE errs

\* line 840: image.save writes the file unless it fails
Saved(img, fs) == fs = "ok" /\ ~img.null

NextAfterTargetAbortOnError(errs_before, errs_after) ==
    IF errs_after # errs_before THEN "finish" ELSE "check"

\* the loop goes on with the next target whether or not an error was
\* recorded (the try statement of lines 829-843 is inside the loop)
NextAfterTarget(errs_before, errs_after) == "check"

\* lines 829-843: one target is rendered and written
ProcessTarget(fs) ==
    /\ pc = "render"
    /\ LET t == selected[i]
           cache == IF override_is_png(t) THEN svg_cache
                    ELSE SvgCacheAfter(svg_cache, disk, SvgPathOf(t))
           img == RenderTarget(t, cache)
           errs == ErrorsAfter(errors, t, img, fs)
       IN  /\ svg_cache' = cache
           /\ errors' = errs
           /\ disk' = IF Saved(img, fs)
                      THEN [p \in DOMAIN disk \cup {t.path} |->
                               IF p = t.path THEN PngFile(img) ELSE disk[p]]
                      ELSE disk
           /\ attempts' = Append(attempts,
                                 [index |-> i, path |-> t.path, fs |-> fs,
                                  saved |-> Saved(img, fs), image |-> img,
                                  before |-> IF Exists(disk, t.path)
                                             THEN disk[t.path] ELSE None,
                                  measured |-> MeasuredFor(t, svg_cache)])
           /\ pc' = NextAfterTarget(errors, errs)
    /\ i' = i + 1
    /\ UNCHANGED <<callVars, targets, checked, svg_input, selected, canceled,
                   runs, report>>

FinishRemeasuringTargets ==
    /\ pc = "finish"
    /\ targets' =
           [k \in DOMAIN targets |->
               LET img == LoadImage(disk, targets[k].path)
               IN  [targets[k] EXCEPT
                       !.bounds = IF img.null THEN None
                                  ELSE get_image_bounds(img)]]
    /\ report' = Report(IF errors # <<>> THEN "Completed with Errors"
                        ELSE "Success",
                        Len(selected) - Len(errors), Len(selected))
    /\ pc' = "idle"
    /\ selected' = <<>>
    /\ i' = 0
    /\ errors' = <<>>
    /\ svg_cache' = <<>>
    /\ canceled' = FALSE
    /\ attempts' = <<>>
    /\ UNCHANGED <<callVars, disk, checked, svg_input, runs>>

\* lines 845-868: the previews are refreshed and the result is reported;
\* the locals of the call are gone when it returns
Finish ==
    /\ pc = "finish"
    /\ report' = Report(IF errors # <<>> THEN "Completed with Errors"
                        ELSE "Success",
                        Len(selected) - Len(errors), Len(selected))
    /\ pc' = "idle"
    /\ selected' = <<>>
    /\ i' = 0
    /\ errors' = <<>>
    /\ svg_cache' = <<>>
    /\ canceled' = FALSE
    /\ attempts' = <<>>
    /\ UNCHANGED <<callVars, winVars, runs>>

\* the files the override dialog returns: a picture, a file that does not
\* load, or nothing
OverrideChoices == {GoodPngPath, BadSvgPath, None}

Next ==
    \/ \E row \in Rows : ToggleCheck(row)
    \/ \E path \in {GoodSvgPath, BadSvgPath} : BrowseSvg(path)
    \/ \E rows \in SUBSET Rows, path \in OverrideChoices :
           SetOverride(rows, path)
    \/ \E rows \in SUBSET Rows : ClearOverride(rows)
    \/ \E reply \in {"Yes", "No"} : GenerateIcons(reply)
    \/ CheckCancel
    \/ Cancel
    \/ \E fs \in FsOutcomes : ProcessTarget(fs)
    \/ Finish

Spec == Init /\ [][Next]_vars

\* ------------------------------------------------------------------------
\* The same selection generated again: a window whose rows carry
\* overrides, and nothing but the Generate button pressed, the
\* confirmation accepted, every file written.  An override is any file
\* the dialog or the configuration accepts: an art file or a picture of
\* the project itself, which is then a source and a target at once.  The
\* pixels of a picture the run wrote are not computed: read back as a
\* source it is a picture of the size of its canvas that measures as
\* having no padding.
\* ------------------------------------------------------------------------

\* no override, an art file, or a picture of the project that decodes
OverrideSources(d) ==
    {None, GoodPngPath, GoodSvgPath, BadSvgPath}
    \cup {p \in DOMAIN d \ DOMAIN ArtFiles :
              SuffixLower(p) = ".png" /\ ~LoadImage(d, p).null}

InitTwice ==
    /\ image = None /\ renderer = None /\ bounds_in = None /\ target = None
    /\ result = NoResult
    /\ disk \in Projects
    /\ \E ov \in [DOMAIN ScanTargets(disk) -> OverrideSources(disk)] :
           targets = [k \in DOMAIN ScanTargets(disk) |->
                         [ScanTargets(disk)[k] EXCEPT !.override_path = ov[k]]]
    /\ svg_input \in {NoSvgInput, SetSvg(NoSvgInput, disk, GoodSvgPath)}
    /\ checked = [k \in DOMAIN targets |-> TRUE]
    /\ pc = "idle"
    /\ selected = <<>>
    /\ i = 0
    /\ errors = <<>>
    /\ svg_cache = <<>>
    /\ canceled = FALSE
    /\ attempts = <<>>
    /\ runs = 0
    /\ report = NoReport

\* the Generate button pressed once more than in a session of Spec
GenerateAgain ==
    /\ runs <= MaxRuns
    /\ StartRun("Yes")

NextTwice ==
    \/ GenerateAgain
    \/ CheckCancel
    \/ ProcessTarget("ok")
    \/ Finish

SpecTwice == InitTwice /\ [][NextTwice]_vars

\* ------------------------------------------------------------------------
\* Claims about get_image_bounds (checked under SpecBounds)
\* ------------------------------------------------------------------------

\* the pixels of an image with alpha above 10, found by visiting every pixel
VisiblePixels(img) ==
    {p \in Pixels(img.width, img.height) : Alpha(img, p) > 10}

Called(fn) == result.fn = fn

\* C1: for a non-null image with at least one pixel of alpha > 10,
\* get_image_bounds returns the tight box of exactly those pixels:
\* x = min column, y = min row, width = max column - min column + 1,
\* height = max row - min row + 1; a single opaque pixel at (5, 7) gives
\* (5, 7, 1, 1) and the opaque square on rows [10, 50), columns [20, 60)
\* gives (20, 10, 40, 40).
C1_TightBox ==
    (Called("get_image_bounds") /\ ~image.null) =>
        LET vis == VisiblePixels(image)
            cols == {p[1] : p \in vis}
            rows == {p[2] : p \in vis}
            b == result.val
        IN  /\ vis # {} =>
                /\ b.x = Min(cols)
                /\ b.y = Min(rows)
                /\ b.width = Max(cols) - Min(cols) + 1
                /\ b.height = Max(rows) - Min(rows) + 1
                /\ b.image_width = image.width
                /\ b.image_height = image.height
            /\ image = DotImage => b = IconBounds(5, 7, 1, 1, 16, 16)
            /\ image = SquareImage => b = IconBounds(20, 10, 40, 40, 64, 64)

C1_Witness ==
    /\ Called("get_image_bounds")
    /\ image = SquareImage
    /\ result.val = IconBounds(20, 10, 40, 40, 64, 64)

\* C2: for a non-null image without any pixel of alpha > 10,
\* get_image_bounds returns the full extent (0, 0, width, height), which is
\* full and not empty.
C2_TransparentIsFull ==
    (Called("get_image_bounds") /\ ~image.null /\ VisiblePixels(image) = {}) =>
        /\ result.val = IconBounds(0, 0, image.width, image.height,
                                   image.width, image.height)
        /\ is_full(result.val)
        /\ ~is_empty(result.val)

C2_Witness ==
    /\ Called("get_image_bounds")
    /\ image = QImage(4, 3, <<>>)
    /\ result.val = IconBounds(0, 0, 4, 3, 4, 3)

\* the image with every pixel of alpha 0..10 set to alpha a
Refaint(img, a) ==
    QImage(img.width, img.height,
           [p \in Pixels(img.width, img.height) |->
               IF Alpha(img, p) <= 10 THEN a ELSE Alpha(img, p)])

\* the image with the one pixel p set to alpha a
WithPixel(img, p, a) ==
    QImage(img.width, img.height,
           [q \in Pixels(img.width, img.height) |->
               IF q = p THEN a ELSE Alpha(img, q)])

InsideBox(p, b) ==
    /\ b.x <= p[1] /\ p[1] < b.x + b.width
    /\ b.y <= p[2] /\ p[2] < b.y + b.height

\* C3: the threshold is strict: changing pixels of alpha 0..10 to any other
\* alpha in 0..10 (all of them at once, or one of them in a small image)
\* leaves the result of get_image_bounds unchanged, and every pixel of
\* alpha 11 or more lies inside the returned box.
C3_StrictThreshold ==
    (Called("get_image_bounds") /\ ~image.null) =>
        /\ \A a \in {0, 5, 10} :
               get_image_bounds(Refaint(image, a)) = result.val
        /\ image.width * image.height <= 25 =>
               \A p \in Pixels(image.width, image.height) :
                   Alpha(image, p) <= 10 =>
                       \A a \in {0, 10} :
                           get_image_bounds(WithPixel(image, p, a)) = result.val
        /\ \A p \in Pixels(image.width, image.height) :
               Alpha(image, p) >= 11 => InsideBox(p, result.val)

C3_Witness ==
    /\ Called("get_image_bounds")
    /\ image = FringeImage
    /\ result.val = IconBounds(2, 2, 1, 1, 5, 5)

\* C4: every IconBounds returned by get_image_bounds or
\* get_svg_content_bounds has 0 <= x, 0 <= y, width >= 0, height >= 0,
\* x + width <= image_width and y + height <= image_height.
C4_BoundsInsideImage ==
    (Called("get_image_bounds") \/ Called("get_svg_content_bounds")) =>
        LET b == result.val
        IN  /\ 0 <= b.x /\ 0 <= b.y
            /\ b.width >= 0 /\ b.height >= 0
            /\ b.x + b.width <= b.image_width
            /\ b.y + b.height <= b.image_height
            /\ Called("get_image_bounds") =>
                   b.image_width = image.width /\ b.image_height = image.height
            /\ Called("get_svg_content_bounds") =>
                   /\ b.image_width = DEFAULT_RENDER_SIZE
                   /\ b.image_height = DEFAULT_RENDER_SIZE

C4_Witness ==
    /\ Called("get_svg_content_bounds")
    /\ renderer = PaddedSvg
    /\ result.val = IconBounds(128, 128, 256, 256, 512, 512)

\* ------------------------------------------------------------------------
\* Claims about the renderers (checked under SpecRender)
\* ------------------------------------------------------------------------

\* C6: for every target and every source, valid or not, render_png_to_bounds
\* and render_svg_cropped return an image of exactly target.width x
\* target.height, whatever the source size, the source bounds and the
\* target's destination bounds are.
C6_OutputHasTargetSize ==
    (Called("render_png_to_bounds") \/ Called("render_svg_cropped")) =>
        /\ ~result.val.null
        /\ result.val.width = target.width
        /\ result.val.height = target.height

C6_Witness ==
    /\ Called("render_png_to_bounds")
    /\ image = SquareImage
    /\ target.width = 108
    /\ target.bounds = IconBounds(34, 34, 40, 40, 108, 108)
    /\ result.val.width = 108
    /\ result.val.ops # <<>>

\* C7: render_png_to_bounds called with a null source returns a fully
\* transparent canvas of the target size (nothing is drawn on it), whatever
\* the target's destination bounds are.
C7_NullSourceGivesEmptyCanvas ==
    (Called("render_png_to_bounds") /\ image.null) =>
        /\ ~result.val.null
        /\ result.val.width = target.width
        /\ result.val.height = target.height
        /\ \A p \in Pixels(target.width, target.height) :
               Alpha(result.val, p) = 0
        /\ result.val.ops = <<>>

C7_Witness ==
    /\ Called("render_png_to_bounds")
    /\ image.null
    /\ target.bounds # None
    /\ ~is_full(target.bounds)
    /\ result.val = QImage(target.width, target.height, <<>>)

\* ------------------------------------------------------------------------
\* core/adaptive_icons.py: the replacement of an adaptive icon layer
\* ------------------------------------------------------------------------

Layers == {"foreground", "background", "notification"}

\* lines 22-26
get_layer_filename(layer) ==
    IF layer = "notification" THEN "ic_notification.png"
    ELSE IF layer = "foreground" THEN "ic_launcher_foreground.png"
    ELSE "ic_launcher_background.png"

\* lines 29-33
get_layer_sizes(layer) ==
    IF layer = "notification" THEN MIPMAP_SIZES ELSE ADAPTIVE_ICON_SIZES

\* lines 36-38: ANDROID_RES_DIR and ASSETS_ANDROID_DIR
get_target_directories == <<"android_res", "assets_android">>

\* target_path.parent.exists(): a directory exists when it holds a file
DirExists(d, base, dir) == \E q \in DOMAIN d : q.base = base /\ q.dir = dir

\* lines 41-60: the (path, size) pairs of a layer, in the order of the loops
get_layer_targets(d, layer) ==
    LET sizes == get_layer_sizes(layer)
        nd == Len(sizes)
        cand == [k \in 1 .. Len(get_target_directories) * nd |->
                    LET base == get_target_directories[((k - 1) \div nd) + 1]
                        m == sizes[((k - 1) % nd) + 1]
                    IN  [path |-> Path(base, m.dir, get_layer_filename(layer)),
                         size |-> m.size]]
    IN  SelectSeq(cand, LAMBDA c : DirExists(d, c.path.base, c.path.dir))

\* source.scaled(size, size, IgnoreAspectRatio, SmoothTransformation)
ScaledToSquare(source, size) ==
    Paint(NewCanvas(size, size),
          [op |-> "drawImage", x |-> 0, y |-> 0, width |-> size,
           height |-> size,
           crop |-> Rect(0, 0, source.width, source.height)])

\* lines 132-162: None when the file cannot be opened or does not parse
render_svg_to_image(d, svg_path, size) ==
    IF ~LoadSvg(d, svg_path).valid
    THEN None
    ELSE Paint(NewCanvas(size, size), SvgDirectOp(Rect(0, 0, size, size)))

\* the value a replacement returns, with the files it leaves on disk
LayerResult(success, errs, d) ==
    [success |-> success, errors |-> errs, disk |-> d]

\* what the loop body made for a target before it saves: an image, or no
\* image and the message appended before continue
Made(img, message) == [image |-> img, error |-> message]

\* lines 96-105, 203-212 and 289-298: one target is saved or one message
\* is appended
SaveLayer(st, t, made, fs) ==
    IF made.image = None
    THEN [st EXCEPT !.errors = Append(@, made.error)]
    ELSE IF fs = "mkdir_raises"
    THEN [st EXCEPT !.errors = Append(@, "exception")]
    ELSE IF fs = "save_false" \/ made.image.null
    THEN [st EXCEPT !.errors = Append(@, "Failed to save")]
    ELSE [st EXCEPT
             !.success = @ + 1,
             !.disk = [p \in DOMAIN @ \cup {t.path} |->
                          IF p = t.path THEN PngFile(made.image) ELSE @[p]]]

\* the loops of lines 87-105, 195-212 and 252-298 from target k on
RECURSIVE LayerLoop(_, _, _, _, _)
LayerLoop(st, ts, made, fs, k) ==
    IF k > Len(ts)
    THEN st
    ELSE LayerLoop(SaveLayer(st, ts[k], made[k], fs[k]), ts, made, fs, k + 1)

\* lines 63-107
replace_layer(d, source_path, layer, fs) ==
    LET source == LoadImage(d, source_path)
        ts == get_layer_targets(d, layer)
    IN  IF source.null
        THEN LayerResult(0, <<"Failed to load source image">>, d)
        ELSE IF ts = <<>>
        THEN LayerResult(0, <<"No target directories found">>, d)
        ELSE LayerLoop(LayerResult(0, <<>>, d), ts,
                       [k \in DOMAIN ts |->
                           Made(ScaledToSquare(source, ts[k].size), "")],
                       fs, 1)

\* lines 165-214
replace_layer_from_svg(d, svg_path, layer, fs) ==
    LET ts == get_layer_targets(d, layer)
    IN  IF ~Exists(d, svg_path)
        THEN LayerResult(0, <<"Failed to load SVG">>, d)
        ELSE IF ~LoadSvg(d, svg_path).valid
        THEN LayerResult(0, <<"Invalid SVG file">>, d)
        ELSE IF ts = <<>>
        THEN LayerResult(0, <<"No target directories found">>, d)
        ELSE LayerLoop(LayerResult(0, <<>>, d), ts,
                       [k \in DOMAIN ts |->
                           Made(render_svg_to_image(d, svg_path, ts[k].size),
                                "Failed to render SVG")],
                       fs, 1)

\* lines 252-287: the image of one target, from its override or from the
\* default source
LayerImage_with_overrides(d, source_path, overrides, is_svg, t) ==
    LET density == t.path.dir
        override_path == IF density \in DOMAIN overrides
                         THEN overrides[density] ELSE None
    IN  IF override_path # None /\ Exists(d, override_path)
        THEN IF SuffixLower(override_path) = ".svg"
             THEN Made(render_svg_to_image(d, override_path, t.size),
                       "Failed to render override SVG")
             ELSE IF LoadImage(d, override_path).null
             THEN Made(None, "Failed to load override")
             ELSE Made(ScaledToSquare(LoadImage(d, override_path), t.size),
                       "")
        ELSE IF is_svg
        THEN Made(render_svg_to_image(d, source_path, t.size),
                  "Failed to render SVG")
        ELSE Made(ScaledToSquare(LoadImage(d, source_path), t.size), "")

\* lines 217-300
replace_layer_with_overrides(d, source_path, layer, overrides, is_svg, fs) ==
    LET ts == get_layer_targets(d, layer)
    IN  IF ts = <<>>
        THEN LayerResult(0, <<"No target directories found">>, d)
        ELSE IF ~is_svg /\ LoadImage(d, source_path).null
        THEN LayerResult(0, <<"Failed to load source image">>, d)
        ELSE LayerLoop(LayerResult(0, <<>>, d), ts,
                       [k \in DOMAIN ts |->
                           LayerImage_with_overrides(
                               d, source_path, overrides, is_svg, ts[k])],
                       fs, 1)

\* The replacement functions called once on a project: target holds the
\* arguments, result the returned pair and the files before the call.
\* The Android project has the mipmap-mdpi and mipmap-xxxhdpi directories
\* of res; the second project adds mipmap-hdpi of the assets folder; the
\* iOS project has no directory of a layer.
LayerProjects ==
    {AndroidProject,
     AndroidProject
     @@ (Path("assets_android", "mipmap-hdpi", "ic_launcher.png") :>
             PngFile(Dots(72, 72, {<<0, 0>>, <<71, 71>>}))),
     IosProject}

\* source_path, layer and the overrides of the densities
LayerArgs ==
    [source_path : {GoodPngPath, BadPngPath, GoodSvgPath, BadSvgPath,
                    MissingPath},
     layer : Layers,
     overrides : {<<>>,
                  "mipmap-mdpi" :> GoodPngPath,
                  "mipmap-mdpi" :> BadPngPath,
                  "mipmap-xxxhdpi" :> GoodSvgPath,
                  "mipmap-mdpi" :> BadSvgPath,
                  "mipmap-xxxhdpi" :> MissingPath}]

InitLayers ==
    /\ image = None /\ renderer = None /\ bounds_in = None
    /\ target \in LayerArgs
    /\ result = NoResult
    /\ disk \in LayerProjects
    /\ targets = <<>>
    /\ checked = <<>>
    /\ svg_input = NoSvgInput
    /\ pc = "idle"
    /\ selected = <<>>
    /\ i = 0
    /\ errors = <<>>
    /\ svg_cache = <<>>
    /\ canceled = FALSE
    /\ attempts = <<>>
    /\ runs = 0
    /\ report = NoReport

\* what the file system does to the mkdir and the save of each target
LayerFs == [DOMAIN get_layer_targets(disk, target.layer) -> FsOutcomes]

\* a call leaves its value in result and its files on disk
Returned(fn, val) ==
    /\ result' = [fn |-> fn,
                  val |-> [success |-> val.success, errors |-> val.errors],
                  before |-> disk]
    /\ disk' = val.disk
    /\ UNCHANGED <<image, renderer, bounds_in, target, targets, checked,
                   svg_input, runVars>>

\* ui/adaptive_tab.py lines 680-693: the tab calls replace_layer for a PNG
\* source and replace_layer_from_svg for an SVG source, without
\* overrides, and replace_layer_with_overrides with is_svg telling the
\* type of the source
CallReplaceLayer ==
    /\ result = NoResult
    /\ SuffixLower(target.source_path) = ".png"
    /\ target.overrides = <<>>
    /\ \E fs \in LayerFs :
           Returned("replace_layer",
                    replace_layer(disk, target.source_path, target.layer, fs))

CallReplaceLayerFromSvg ==
    /\ result = NoResult
    /\ SuffixLower(target.source_path) = ".svg"
    /\ target.overrides = <<>>
    /\ \E fs \in LayerFs :
           Returned("replace_layer_from_svg",
                    replace_layer_from_svg(disk, target.source_path,
                                           target.layer, fs))

CallReplaceLayerWithOverrides ==
    /\ result = NoResult
    /\ \E fs \in LayerFs :
           Returned("replace_layer_with_overrides",
                    replace_layer_with_overrides(
                        disk, target.source_path, target.layer,
                        target.overrides,
                        SuffixLower(target.source_path) = ".svg", fs))

NextLayers ==
    \/ CallReplaceLayer
    \/ CallReplaceLayerFromSvg
    \/ CallReplaceLayerWithOverrides

SpecLayers == InitLayers /\ [][NextLayers]_vars

\* ------------------------------------------------------------------------
\* ui/adaptive_tab.py: the notification accent colour.  A text is the
\* sequence of its characters.  The Java helper file is the sequence of
\* its pieces: other code ("text"), the statement .setAutoCancel(true);
\* ("setAutoCancelSemi"), a call .setColor(Color.parseColor(arg)) with
\* the text between its quotes ("setColor"), and what the insertion of
\* lines 800-803 puts in the place of .setAutoCancel(true); , which ends
\* in such a call ("setAutoCancelWithColor").
\* ------------------------------------------------------------------------

\* _get_java_helper_path, lines 719-721
JavaHelperPath ==
    Path("android_java", "helpers", "CustomPushNotificationHelper.java")

JavaFile(content) ==
    [image |-> NullImage, svg |-> InvalidSvg, json |-> <<>>,
     text |-> content]

\* str.upper()
Upper(text) ==
    [k \in DOMAIN text |->
        CASE text[k] = "a" -> "A" [] text[k] = "b" -> "B"
          [] text[k] = "c" -> "C" [] text[k] = "d" -> "D"
          [] text[k] = "e" -> "E" [] text[k] = "f" -> "F"
          [] text[k] = "g" -> "G"
          [] OTHER -> text[k]]

\* str.strip()
Strip(text) ==
    LET ns == {k \in DOMAIN text : text[k] # " "}
    IN  IF ns = {} THEN <<>>
        ELSE SubSeq(text,
                    CHOOSE k \in ns : \A j \in ns : k <= j,
                    CHOOSE k \in ns : \A j \in ns : j <= k)

\* re.match(r'^#[0-9A-Fa-f]{6}$', text)
IsHexColor(text) ==
    /\ Len(text) = 7
    /\ text[1] = "#"
    /\ \A k \in 2 .. 7 :
           text[k] \in {"0", "1", "2", "3", "4", "5", "6", "7", "8", "9",
                        "A", "B", "C", "D", "E", "F",
                        "a", "b", "c", "d", "e", "f"}

\* the piece holds '.setColor(Color.parseColor(' (line 791)
HasSetColor(piece) == piece.kind \in {"setColor", "setAutoCancelWithColor"}

\* the piece matches \.setColor\(Color\.parseColor\("#[0-9A-Fa-f]{6}"\)\)
\* (lines 734 and 794)
MatchesSetColor(piece) == HasSetColor(piece) /\ IsHexColor(piece.arg)

\* lines 733-741: the text _load_current_notification_color puts in the
\* colour field for a file it could read
LoadedColor(content) ==
    LET ms == {k \in DOMAIN content : MatchesSetColor(content[k])}
    IN  IF ms = {} THEN <<>>
        ELSE Upper(content[CHOOSE k \in ms : \A j \in ms : k <= j].arg)

\* lines 790-803: new_content
NewContent(content, color) ==
    IF \E k \in DOMAIN content : HasSetColor(content[k])
    THEN [k \in DOMAIN content |->
             IF MatchesSetColor(content[k])
             THEN [content[k] EXCEPT !.arg = color]
             ELSE content[k]]
    ELSE [k \in DOMAIN content |->
             IF content[k].kind = "setAutoCancelSemi"
             THEN [kind |-> "setAutoCancelWithColor", arg |-> color]
             ELSE content[k]]

\* the field after _load_current_notification_color (lines 723-743)
ColorInputLoaded(d) ==
    [color_input |-> IF Exists(d, JavaHelperPath)
                     THEN LoadedColor(d[JavaHelperPath].text)
                     ELSE <<>>]

\* the helper file as a project may hold it, or no helper file
JavaProjects ==
    LET code == [kind |-> "text", arg |-> <<>>]
        call(arg) == [kind |-> "setColor", arg |-> arg]
        semi == [kind |-> "setAutoCancelSemi", arg |-> <<>>]
    IN  {<<>>}
        \cup {JavaHelperPath :> JavaFile(content) :
                content \in
                  {<<code, call(<<"#", "F", "2", "A", "9", "0", "0">>), code>>,
                   <<code, call(<<"#", "f", "2", "a", "9", "0", "0">>), code>>,
                   <<call(<<"#", "F", "F", "F">>), code,
                     call(<<"#", "0", "0", "0", "0", "0", "0">>)>>,
                   <<call(<<"#", "1", "2", "3", "4", "5", "6">>),
                     call(<<"#", "F", "2", "A", "9", "0", "0">>)>>,
                   <<code, call(<<"a", "c", "c", "e", "n", "t">>), semi>>,
                   <<code, semi, code>>,
                   <<code>>}}

\* what the user types in the colour field
ColorTexts ==
    {<<"#", "F", "2", "A", "9", "0", "0">>,
     <<"#", "f", "2", "a", "9", "0", "0">>,
     <<" ", "#", "0", "0", "0", "0", "0", "0", " ">>,
     <<"#", "F", "F", "F">>,
     <<"#", "g", "g", "g", "g", "g", "g">>,
     <<>>}

\* AdaptiveIconTab.__init__ (line 553): the field shows the colour of the
\* helper file
InitColor ==
    /\ image = None /\ renderer = None /\ bounds_in = None
    /\ disk \in JavaProjects
    /\ target = ColorInputLoaded(disk)
    /\ result = NoResult
    /\ targets = <<>>
    /\ checked = <<>>
    /\ svg_input = NoSvgInput
    /\ pc = "idle"
    /\ selected = <<>>
    /\ i = 0
    /\ errors = <<>>
    /\ svg_cache = <<>>
    /\ canceled = FALSE
    /\ attempts = <<>>
    /\ runs = 0
    /\ report = NoReport

\* the user edits the colour field
TypeColor(text) ==
    /\ target' = [color_input |-> text]
    /\ result' = NoResult
    /\ report' = NoReport
    /\ UNCHANGED <<image, renderer, bounds_in, winVars, loopVars>>

\* the tab is constructed again: _load_current_notification_color
LoadCurrentNotificationColor ==
    /\ target' = ColorInputLoaded(disk)
    /\ result' = [fn |-> "_load_current_notification_color", val |-> None]
    /\ report' = NoReport
    /\ UNCHANGED <<image, renderer, bounds_in, winVars, loopVars>>

\* _apply_notification_color (lines 775-822); io tells whether write_text
\* raises.  result keeps the content the file had before the call.
ApplyNotificationColor(io) ==
    LET color == Upper(Strip(target.color_input))
        content == disk[JavaHelperPath].text
        new_content == NewContent(content, color)
        outcome ==
            IF ~IsHexColor(color) THEN "Invalid Color"
            ELSE IF ~Exists(disk, JavaHelperPath) THEN "File Not Found"
            ELSE IF new_content = content THEN "Could Not Apply"
            ELSE IF io = "raises" THEN "Error"
            ELSE "Success"
    IN  /\ report' = Report(outcome, 0, 0)
        /\ disk' = IF outcome = "Success"
                   THEN [disk EXCEPT ![JavaHelperPath] = JavaFile(new_content)]
                   ELSE disk
        /\ result' = [fn |-> "_apply_notification_color",
                      val |-> IF Exists(disk, JavaHelperPath)
                              THEN content ELSE <<>>,
                      io |-> io]
        /\ UNCHANGED <<image, renderer, bounds_in, target, targets, checked,
                       svg_input, loopVars>>

NextColor ==
    \/ \E text \in ColorTexts : TypeColor(text)
    \/ LoadCurrentNotificationColor
    \/ \E io \in {"ok", "raises"} : ApplyNotificationColor(io)

SpecColor == InitColor /\ [][NextColor]_vars

\* ------------------------------------------------------------------------
\* Claims about the window and the generation run (checked under Spec)
\* ------------------------------------------------------------------------

\* C5: every IconTarget made by the scan has a positive width and height,
\* and the bounds it carries lie inside its canvas:
\* 0 <= x, x + width <= target.width, 0 <= y, y + height <= target.height.
\* The scan gives an adaptive layer the size of the legacy table while its
\* bounds are measured on the file, so the statement fails for such a layer.
C5_ScannedBoundsInsideCanvas ==
    \A k \in DOMAIN targets :
        LET t == targets[k]
        IN  /\ t.width > 0
            /\ t.height > 0
            /\ t.bounds # None =>
                   /\ 0 <= t.bounds.x
                   /\ t.bounds.x + t.bounds.width <= t.width
                   /\ 0 <= t.bounds.y
                   /\ t.bounds.y + t.bounds.height <= t.height

\* the source of a target does not parse or decode
SourceInvalid(t) ==
    IF override_is_png(t)
    THEN LoadImage(disk, t.override_path).null
    ELSE ~LoadSvg(disk, SvgPathOf(t)).valid

ErrorsFor(path) == {k \in DOMAIN errors : errors[k].path = path}

\* C8: at the end of a run, every target that was processed with a source
\* that does not parse or decode has an error recorded and was not written.
\* The run writes a blank picture for such a target and records nothing.
C8_InvalidSourceIsAFailure ==
    pc = "finish" =>
        \A k \in DOMAIN attempts :
            SourceInvalid(selected[k]) =>
                /\ ErrorsFor(attempts[k].path) # {}
                /\ ~attempts[k].saved

Failed(k) == attempts[k].fs # "ok"
Written == {k \in DOMAIN attempts : attempts[k].saved}

\* C9: a run that was not cancelled has started every selected target; a
\* target whose mkdir raised or whose save returned false has exactly one
\* error and no file, every other target is written with the picture that
\* was rendered for it, and written files + errors = selected targets.
C9_FailureDoesNotAbortBatch ==
    (pc = "finish" /\ ~canceled) =>
        /\ Len(attempts) = Len(selected)
        /\ \A k \in DOMAIN attempts :
               IF Failed(k)
               THEN /\ Cardinality(ErrorsFor(attempts[k].path)) = 1
                    /\ ~attempts[k].saved
               ELSE /\ ErrorsFor(attempts[k].path) = {}
                    /\ attempts[k].saved
                    /\ disk[attempts[k].path] = PngFile(attempts[k].image)
        /\ Cardinality(Written) + Len(errors) = Len(selected)

\* three targets, the first one fails, the other two are written
C9_Witness ==
    /\ pc = "finish"
    /\ ~canceled
    /\ Len(selected) = 3
    /\ Failed(1)
    /\ Len(errors) = 1
    /\ Cardinality(Written) = 2

\* the table row of a selected target
RowOf(t) == CHOOSE r \in DOMAIN targets : targets[r].path = t.path

\* the targets are taken one at a time in the order of the table
InTableOrder ==
    pc # "idle" =>
        /\ \A j, k \in DOMAIN selected :
               j < k => RowOf(selected[j]) < RowOf(selected[k])
        /\ {RowOf(selected[j]) : j \in DOMAIN selected}
               = {r \in DOMAIN targets : checked[r]}
        /\ Len(attempts) = i - 1
        /\ \A k \in DOMAIN attempts :
               /\ attempts[k].index = k
               /\ attempts[k].path = selected[k].path

\* what was written stays written
WrittenStaysWritten ==
    \A k \in Written : disk[attempts[k].path] = PngFile(attempts[k].image)

\* one step of the run: a started target is finished whether or not the
\* flag was set meanwhile, and once the flag is seen at the head of the
\* loop the run ends and nothing more is rendered or written
CancelOnlyBetweenTargets ==
    /\ (pc = "render" /\ pc' # "render") =>
           /\ Len(attempts') = Len(attempts) + 1
           /\ attempts'[Len(attempts')].index = i
    /\ (pc = "check" /\ canceled) =>
           /\ pc' = "finish"
           /\ attempts' = attempts
           /\ disk' = disk
    /\ pc = "finish" => disk' = disk
    /\ Len(attempts') > Len(attempts) => pc = "render"
    /\ (pc # "idle" /\ disk' # disk) => pc = "render"

\* C10: the selected targets are processed one at a time in table order,
\* each at most once; the cancel flag is looked at only at the head of the
\* loop, and once it is seen set nothing more is rendered or written while
\* the files already written stay.
C10_SequentialCooperativeCancel ==
    /\ [](InTableOrder /\ WrittenStaysWritten)
    /\ [][CancelOnlyBetweenTargets]_vars

\* the run was cancelled while the second of three targets was rendered:
\* two targets were processed and written, the third was never started
C10_Witness ==
    /\ pc = "finish"
    /\ canceled
    /\ Len(selected) = 3
    /\ Len(attempts) = 2
    /\ Written = {1, 2}
    /\ WrittenStaysWritten

\* the picture of a vector file rendered for a target, measured afresh
VectorPicture(path, t) ==
    LET r == LoadSvg(disk, path)
    IN  render_svg_cropped(r, t, get_svg_content_bounds(r, DEFAULT_RENDER_SIZE))

\* the source kind of a target: "png", "vector" (an override that is not a
\* .png) or "default"
SourceKind(t) ==
    IF t.override_path = None THEN "default"
    ELSE IF SuffixLower(t.override_path) = ".png" THEN "png"
    ELSE "vector"

\* C11: the picture made for a selected target is the one its source kind
\* prescribes: a .png override composited by render_png_to_bounds, any
\* other override rendered by render_svg_cropped, no override the default
\* SVG rendered by render_svg_cropped; it is written to the target's path.
C11_SourcePriority ==
    \A k \in DOMAIN attempts :
        LET t == selected[k]
            a == attempts[k]
        IN  /\ a.path = t.path
            /\ a.image =
                   CASE SourceKind(t) = "png" ->
                            render_png_to_bounds(
                                LoadImage(disk, t.override_path), t)
                     [] SourceKind(t) = "vector" ->
                            VectorPicture(t.override_path, t)
                     [] OTHER -> VectorPicture(svg_input.svg_path, t)
            /\ a.saved => disk[t.path] = PngFile(a.image)

\* one run that served a target of each kind
C11_Witness ==
    /\ pc = "finish"
    /\ Len(attempts) = 3
    /\ {SourceKind(selected[k]) : k \in DOMAIN selected}
           = {"png", "vector", "default"}
    /\ \A k \in DOMAIN attempts : attempts[k].saved
    /\ \E j, k \in DOMAIN attempts : attempts[j].image # attempts[k].image

\* the targets of the run during which the bounds of a source were computed
MeasuredAt(path) == {k \in DOMAIN attempts : path \in attempts[k].measured}

\* C12: within one run the content bounds of a source are computed at most
\* once, for raster and for vector sources, and the cached bounds are the
\* bounds of the source.  The run caches vector sources only: a .png
\* override that feeds two targets is scanned once for each of them.
C12_BoundsComputedOncePerSource ==
    /\ \A path \in DOMAIN disk : Cardinality(MeasuredAt(path)) <= 1
    /\ \A path \in DOMAIN svg_cache :
           svg_cache[path].bounds =
               get_svg_content_bounds(LoadSvg(disk, path), DEFAULT_RENDER_SIZE)

\* the targets handed to the renderers are the window's targets
SelectedAreTheTargets ==
    pc # "idle" =>
        \A j \in DOMAIN selected : selected[j] = targets[RowOf(selected[j])]

\* a step of _generate_icons, from its first line to its return
RunStepKeepsTargets ==
    (pc # "idle" \/ pc' # "idle") => targets' = targets

\* C13: the generation run never changes a target: every step of
\* _generate_icons, the renderer calls included, leaves every field of
\* every IconTarget as it was, and the renderers are handed the window's
\* own targets.
C13_TargetsNeverMutated ==
    /\ []SelectedAreTheTargets
    /\ [][RunStepKeepsTargets]_vars

\* a run at its end that rewrote the file of a target with bounds and an
\* override
C13_Witness ==
    /\ pc = "finish"
    /\ \E k \in DOMAIN attempts :
           /\ attempts[k].saved
           /\ selected[k].bounds # None
           /\ ~is_full(selected[k].bounds)
           /\ selected[k].override_path # None
           /\ disk[selected[k].path] = PngFile(attempts[k].image)
           /\ targets[RowOf(selected[k])] = selected[k]

\* ------------------------------------------------------------------------
\* Claims about the placement in the renderers (checked under SpecRender)
\* ------------------------------------------------------------------------

\* the rectangle the target prescribes: its bounds when it has bounds that
\* do not cover their whole image, the whole canvas otherwise
PrescribedRect(t) ==
    IF /\ t.bounds # None
       /\ ~(/\ t.bounds.x = 0
            /\ t.bounds.y = 0
            /\ t.bounds.width = t.bounds.image_width
            /\ t.bounds.height = t.bounds.image_height)
    THEN Rect(t.bounds.x, t.bounds.y, t.bounds.width, t.bounds.height)
    ELSE Rect(0, 0, t.width, t.height)

\* the one painter call of a result
Op == result.val.ops[1]
Painted(fn) == Called(fn) /\ result.val.ops # <<>>

\* C14: both renderers place the source in the rectangle the target
\* prescribes.  The raster is scaled to fit that rectangle and centred in
\* it; the vector is rendered into exactly that rectangle (direct branch)
\* or with the transform computed for that rectangle (cropping branch).
C14_DestinationRectangle ==
    /\ (Called("render_png_to_bounds") \/ Called("render_svg_cropped")) =>
           DestRect(target) = PrescribedRect(target)
    /\ Painted("render_png_to_bounds") =>
           LET d == PrescribedRect(target)
           IN  /\ Size(Op.width, Op.height) =
                      ScaledSize(Size(Op.crop.width, Op.crop.height),
                                 d.width, d.height)
               /\ Op.x = d.x + ((d.width - Op.width) \div 2)
               /\ Op.y = d.y + ((d.height - Op.height) \div 2)
    /\ Painted("render_svg_cropped") =>
           Op = IF HasPadding(bounds_in)
                THEN SvgCropOp(renderer, PrescribedRect(target), bounds_in)
                ELSE SvgDirectOp(PrescribedRect(target))

\* a vector without padding rendered into the inner bounds of a layer
C14_Witness ==
    /\ Painted("render_svg_cropped")
    /\ target.width = 108
    /\ target.bounds = IconBounds(34, 34, 40, 40, 108, 108)
    /\ is_full(bounds_in)
    /\ Op.rect = Rect(34, 34, 40, 40)

\* the locals of the cropping branch for the call that was made
Locals == SvgCropLocals(renderer, DestRect(target), bounds_in)
CropPainted == Painted("render_svg_cropped") /\ HasPadding(bounds_in)

\* the vector fit: the scaled content is inside the destination rectangle,
\* fills it in one dimension, keeps the ratio of the content, and its
\* offsets from the rectangle's origin are not negative
VectorFit ==
    CropPainted =>
        LET l == Locals
            d == DestRect(target)
        IN  /\ Op.scale = l.scale /\ Op.offset_x = l.offset_x
            /\ Op.offset_y = l.offset_y
            /\ l.scaled_w = RMul(l.content_w, l.scale)
            /\ l.scaled_h = RMul(l.content_h, l.scale)
            /\ RLe(l.scaled_w, RInt(d.width))
            /\ RLe(l.scaled_h, RInt(d.height))
            /\ l.scaled_w = RInt(d.width) \/ l.scaled_h = RInt(d.height)
            /\ RMul(l.scaled_w, l.content_h) = RMul(l.scaled_h, l.content_w)
            /\ RLe(RInt(d.x), l.offset_x)
            /\ RLe(RInt(d.y), l.offset_y)

\* the raster fit without the ratio: inside the destination rectangle,
\* filling it in one dimension, offsets not negative
RasterInside ==
    Painted("render_png_to_bounds") =>
        LET d == DestRect(target)
        IN  /\ Op.width <= d.width /\ Op.height <= d.height
            /\ Op.width = d.width \/ Op.height = d.height
            /\ Op.x >= d.x /\ Op.y >= d.y

\* the statement as the spec words it: the raster keeps the width:height
\* ratio of its content exactly
C15_AspectFitExactRatio ==
    /\ VectorFit
    /\ RasterInside
    /\ Painted("render_png_to_bounds") =>
           Op.width * Op.crop.height = Op.height * Op.crop.width

\* C15: aspect-preserving fit.  The vector content is scaled by
\* min(destWidth/contentWidth, destHeight/contentHeight): it is no wider
\* and no taller than the destination rectangle, fills it in one dimension,
\* keeps its ratio exactly and has offsets >= 0.  The raster is no wider and
\* no taller than the destination rectangle, fills it in one dimension and
\* has offsets >= 0; its other side is the proportional length rounded down
\* to a whole pixel and raised to at least 1, so the ratio is kept only up
\* to that rounding.
C15_AspectFit ==
    /\ VectorFit
    /\ RasterInside
    /\ Painted("render_png_to_bounds") =>
           LET d == DestRect(target)
               cw == Op.crop.width
               ch == Op.crop.height
           IN  \/ /\ Op.height = d.height
                  /\ Op.width = Max({1, (d.height * cw) \div ch})
               \/ /\ Op.width = d.width
                  /\ Op.height = Max({1, (d.width * ch) \div cw})

\* a 1 x 100 column fitted into a 48 x 48 canvas: 48 high and, instead of
\* 0.48, 1 wide
C15_Witness ==
    /\ Painted("render_png_to_bounds")
    /\ image = SliverImage
    /\ DestRect(target) = Rect(0, 0, 48, 48)
    /\ Op.width = 1
    /\ Op.height = 48

\* the free space around the drawn raster inside the destination rectangle
MarginLeft == Op.x - DestRect(target).x
MarginRight ==
    (DestRect(target).x + DestRect(target).width) - (Op.x + Op.width)
MarginTop == Op.y - DestRect(target).y
MarginBottom ==
    (DestRect(target).y + DestRect(target).height) - (Op.y + Op.height)

\* C16: the scaled content is centred in the destination rectangle.  For
\* the vector the free space left and right of the content is equal, and
\* so above and below.  For the raster, drawn at an offset truncated to an
\* integer, the two margins differ by at most one pixel and the drawn
\* image lies inside the destination rectangle.
C16_Centred ==
    /\ CropPainted =>
           LET l == Locals
               d == DestRect(target)
           IN  /\ Op.offset_x = l.offset_x /\ Op.offset_y = l.offset_y
               /\ RSub(l.offset_x, RInt(d.x))
                      = RSub(RInt(d.x + d.width),
                             RAdd(l.offset_x, RMul(l.content_w, Op.scale)))
               /\ RSub(l.offset_y, RInt(d.y))
                      = RSub(RInt(d.y + d.height),
                             RAdd(l.offset_y, RMul(l.content_h, Op.scale)))
    /\ Painted("render_png_to_bounds") =>
           /\ MarginLeft >= 0 /\ MarginRight >= 0
           /\ MarginTop >= 0 /\ MarginBottom >= 0
           /\ MarginRight - MarginLeft \in {0, 1}
           /\ MarginBottom - MarginTop \in {0, 1}

\* a 1 x 100 column in a 48 x 48 canvas: 23 free pixels on the left, 24 on
\* the right
C16_Witness ==
    /\ Painted("render_png_to_bounds")
    /\ image = SliverImage
    /\ MarginLeft = 23
    /\ MarginRight = 24
    /\ MarginTop = 0
    /\ MarginBottom = 0

\* a box that neither covers its whole image nor has zero area
NeitherFullNorEmpty(b) ==
    /\ ~(b.x = 0 /\ b.y = 0 /\ b.width = b.image_width
         /\ b.height = b.image_height)
    /\ b.width # 0
    /\ b.height # 0

\* C17: the source is cropped exactly when its content bounds are neither
\* full nor empty.  Then render_png_to_bounds scales the sub-rectangle of
\* the bounds and render_svg_cropped renders the document's own rectangle
\* under the crop transform; otherwise the raster is scaled whole and the
\* vector is rendered into the destination rectangle without a transform.
C17_CropExactlyWhenPadded ==
    /\ Painted("render_png_to_bounds") =>
           LET b == get_image_bounds(image)
           IN  Op.crop = IF NeitherFullNorEmpty(b)
                         THEN Rect(b.x, b.y, b.width, b.height)
                         ELSE Rect(0, 0, image.width, image.height)
    /\ Painted("render_svg_cropped") =>
           IF NeitherFullNorEmpty(bounds_in)
           THEN /\ Op.rect = Rect(0, 0, Locals.svg_size.width,
                                  Locals.svg_size.height)
                /\ Op.content_x = Locals.content_x
                /\ Op.content_y = Locals.content_y
                /\ Op.scale = Locals.scale
                /\ Op # SvgDirectOp(DestRect(target))
           ELSE Op = SvgDirectOp(DestRect(target))

\* a vector handed a box of zero width: rendered directly
C17_Witness ==
    /\ Painted("render_svg_cropped")
    /\ bounds_in = IconBounds(100, 100, 0, 50, 512, 512)
    /\ Op.rect = DestRect(target)
    /\ Op.scale = RInt(1)

Positive(q) == RLt(RInt(0), q) /\ q.d > 0

\* C18: a box of zero width or zero height is treated as no content: the
\* vector is placed uncropped in the destination rectangle.  Whenever the
\* scale computation is reached its divisors are strictly positive: the
\* measurement image's width and height, the content width and height of
\* the vector, and the width and height of the raster that is scaled.
C18_ZeroAreaIsNoContent ==
    /\ (Painted("render_svg_cropped")
        /\ (bounds_in.width = 0 \/ bounds_in.height = 0)) =>
           Op = SvgDirectOp(DestRect(target))
    /\ (Called("render_svg_cropped") /\ HasPadding(bounds_in)) =>
           /\ bounds_in.image_width > 0
           /\ bounds_in.image_height > 0
           /\ Positive(Locals.content_w)
           /\ Positive(Locals.content_h)
           /\ Positive(Locals.scale)
    /\ Painted("render_png_to_bounds") =>
           /\ Op.crop.width > 0
           /\ Op.crop.height > 0

\* a vector handed a box of zero height
C18_Witness ==
    /\ Painted("render_svg_cropped")
    /\ bounds_in = IconBounds(100, 100, 50, 0, 512, 512)
    /\ ~is_full(bounds_in)
    /\ Op = SvgDirectOp(DestRect(target))

\* a point with fractional coordinates
Pt(x, y) == [x |-> x, y |-> y]

\* the painter's transform of the cropping branch applied to a point of
\* the document: translate(-content), scale, translate(offset)
Transformed(p) ==
    Pt(RAdd(Op.offset_x, RMul(Op.scale, RSub(p.x, Op.content_x))),
       RAdd(Op.offset_y, RMul(Op.scale, RSub(p.y, Op.content_y))))

InRect(p, d) ==
    /\ RLe(RInt(d.x), p.x) /\ RLe(p.x, RInt(d.x + d.width))
    /\ RLe(RInt(d.y), p.y) /\ RLe(p.y, RInt(d.y + d.height))

Half(q) == RDiv(q, RInt(2))

\* points of the document outside the content region: for each side with
\* padding, the point halfway between the document's edge and the middle
\* of that side of the content region
PaddingPoints ==
    LET l == Locals
        mid_x == RAdd(l.content_x, Half(l.content_w))
        mid_y == RAdd(l.content_y, Half(l.content_h))
        right == RAdd(l.content_x, l.content_w)
        bottom == RAdd(l.content_y, l.content_h)
        doc_w == RInt(l.svg_size.width)
        doc_h == RInt(l.svg_size.height)
    IN  (IF Positive(l.content_y)
         THEN {Pt(mid_x, Half(l.content_y))} ELSE {})
        \cup (IF Positive(l.content_x)
              THEN {Pt(Half(l.content_x), mid_y)} ELSE {})
        \cup (IF RLt(bottom, doc_h)
              THEN {Pt(mid_x, Half(RAdd(bottom, doc_h)))} ELSE {})
        \cup (IF RLt(right, doc_w)
              THEN {Pt(Half(RAdd(right, doc_w)), mid_y)} ELSE {})

\* the corners of the content region in the document's coordinates
ContentCorners ==
    LET l == Locals
    IN  {Pt(RAdd(l.content_x, dx), RAdd(l.content_y, dy)) :
            dx \in {RInt(0), l.content_w}, dy \in {RInt(0), l.content_h}}

\* C19: in the cropping branch the transform maps the content region onto
\* a rectangle inside the destination rectangle and every point of the
\* document outside the content region to a point outside the destination
\* rectangle.  The second half fails when the content does not fill the
\* destination rectangle in both dimensions: padding next to the content
\* lands on the free margin inside the rectangle, and no clip is set.
C19_TransformCropsToContent ==
    CropPainted =>
        /\ \A p \in ContentCorners : InRect(Transformed(p), DestRect(target))
        /\ \A p \in PaddingPoints : ~InRect(Transformed(p), DestRect(target))

\* where a painter call puts the rectangle it renders the document into:
\* the rectangle handed to renderer.render under the painter's transform
PlacedRect(op) ==
    [x |-> RAdd(op.offset_x,
                RMul(op.scale, RSub(RInt(op.rect.x), op.content_x))),
     y |-> RAdd(op.offset_y,
                RMul(op.scale, RSub(RInt(op.rect.y), op.content_y))),
     width |-> RMul(op.scale, RInt(op.rect.width)),
     height |-> RMul(op.scale, RInt(op.rect.height))]

\* C20: for source bounds that cover the whole measurement image the
\* direct branch places the document where the cropping transform would
\* place it for the same bounds.  It does not when the document's ratio
\* differs from the destination rectangle's: the direct branch stretches
\* the document over the rectangle, the transform keeps its ratio.
C20_ZeroPaddingSameOnBothBranches ==
    (Painted("render_svg_cropped")
     /\ is_full(bounds_in) /\ bounds_in.image_width > 0
     /\ bounds_in.image_height > 0) =>
        /\ Op = SvgDirectOp(DestRect(target))
        /\ PlacedRect(Op)
               = PlacedRect(SvgCropOp(renderer, DestRect(target), bounds_in))

\* ------------------------------------------------------------------------
\* End-to-end claims about the renderers (checked under SpecRender)
\* ------------------------------------------------------------------------

\* the box of the visible artwork of a document, in the document's units
ArtBox(r) ==
    LET cells == {c \in DOMAIN r.art : r.art[c] > VISIBLE_ALPHA_THRESHOLD}
        x0 == Min({c[1] : c \in cells})
        y0 == Min({c[2] : c \in cells})
        x1 == Max({c[1] : c \in cells})
        y1 == Max({c[2] : c \in cells})
    IN  Rect(x0, y0, x1 - x0 + 1, y1 - y0 + 1)

\* a square document whose artwork is a square box with the same padding
\* on all four sides
SquareWithUniformPadding(r) ==
    /\ r.valid
    /\ r.default_w > 0
    /\ r.default_w = r.default_h
    /\ \E c \in DOMAIN r.art : r.art[c] > VISIBLE_ALPHA_THRESHOLD
    /\ LET a == ArtBox(r)
       IN  /\ a.width = a.height
           /\ a.x = a.y
           /\ a.x + a.width + a.x = r.default_w

\* where a painter call puts the point (x, y) of a document of size
\* doc_w x doc_h: the document is stretched onto op.rect, then the
\* painter's transform is applied
DocToCanvas(op, doc_w, doc_h, x, y) ==
    Pt(RAdd(op.offset_x,
            RMul(op.scale,
                 RSub(RAdd(RInt(op.rect.x), Rat(x * op.rect.width, doc_w)),
                      op.content_x))),
       RAdd(op.offset_y,
            RMul(op.scale,
                 RSub(RAdd(RInt(op.rect.y), Rat(y * op.rect.height, doc_h)),
                      op.content_y))))

\* the artwork box of the rendered document on the canvas: its corners
ArtOnCanvas ==
    LET a == ArtBox(renderer)
    IN  [top_left |-> DocToCanvas(Op, renderer.default_w, renderer.default_h,
                                  a.x, a.y),
         bottom_right |-> DocToCanvas(Op, renderer.default_w,
                                      renderer.default_h,
                                      a.x + a.width, a.y + a.height)]

\* C21: padding removal end to end.  A square vector with uniform padding,
\* measured by get_svg_content_bounds and rendered by render_svg_cropped
\* for a square target without bounds or with full bounds, has its artwork
\* box mapped onto exactly the whole canvas: from (0, 0) to
\* (target.width, target.height).
C21_PaddingRemoved ==
    (/\ Painted("render_svg_cropped")
     /\ SquareWithUniformPadding(renderer)
     /\ bounds_in = get_svg_content_bounds(renderer, DEFAULT_RENDER_SIZE)
     /\ target.width = target.height
     /\ (target.bounds = None \/ is_full(target.bounds))) =>
        /\ ArtOnCanvas.top_left = Pt(RInt(0), RInt(0))
        /\ ArtOnCanvas.bottom_right
               = Pt(RInt(target.width), RInt(target.height))

\* the 64 x 64 document with 16 units of padding on a 192 x 192 target:
\* scaled by 6, offsets 0
C21_Witness ==
    /\ Painted("render_svg_cropped")
    /\ renderer = PaddedSvg
    /\ bounds_in = IconBounds(128, 128, 256, 256, 512, 512)
    /\ target.width = 192
    /\ target.bounds = None
    /\ Op.scale = RInt(6)
    /\ Op.offset_x = RInt(0)
    /\ Op.offset_y = RInt(0)
    /\ ArtOnCanvas.bottom_right = Pt(RInt(192), RInt(192))

Floor(q) == q.n \div q.d
Ceiling(q) == -((-q.n) \div q.d)

\* the canvas pixels a painter call can touch: the pixels of the drawn
\* image, or the pixels that meet the rectangle the document is placed on
TouchedPixels(img) ==
    IF img.ops = <<>>
    THEN {}
    ELSE LET op == img.ops[1]
             box == IF op.op = "drawImage"
                    THEN [x0 |-> op.x, y0 |-> op.y,
                          x1 |-> op.x + op.width, y1 |-> op.y + op.height]
                    ELSE LET pr == PlacedRect(op)
                         IN  [x0 |-> Floor(pr.x), y0 |-> Floor(pr.y),
                              x1 |-> Ceiling(RAdd(pr.x, pr.width)),
                              y1 |-> Ceiling(RAdd(pr.y, pr.height))]
         IN  {q \in Pixels(img.width, img.height) :
                 /\ box.x0 <= q[1] /\ q[1] < box.x1
                 /\ box.y0 <= q[2] /\ q[2] < box.y1}

PixelsOf(d) == (d.x .. d.x + d.width - 1) \X (d.y .. d.y + d.height - 1)

\* the target's bounds are a proper sub-rectangle of its canvas and, not
\* covering the image they were measured on, they are its destination
\* rectangle
HasSafeZone(t) ==
    /\ t.bounds # None
    /\ ~is_full(t.bounds)
    /\ 0 <= t.bounds.x /\ t.bounds.x + t.bounds.width <= t.width
    /\ 0 <= t.bounds.y /\ t.bounds.y + t.bounds.height <= t.height
    /\ t.bounds.width > 0 /\ t.bounds.height > 0
    /\ t.bounds.width < t.width \/ t.bounds.height < t.height

\* the call was made with a square source that has no padding
FullBleedSquareSource ==
    \/ /\ Painted("render_png_to_bounds")
       /\ image.width = image.height
       /\ \A q \in Pixels(image.width, image.height) :
              Alpha(image, q) > VISIBLE_ALPHA_THRESHOLD
    \/ /\ Painted("render_svg_cropped")
       /\ renderer.default_w = renderer.default_h
       /\ bounds_in = get_svg_content_bounds(renderer, DEFAULT_RENDER_SIZE)
       /\ bounds_in.x = 0 /\ bounds_in.y = 0
       /\ bounds_in.width = DEFAULT_RENDER_SIZE
       /\ bounds_in.height = DEFAULT_RENDER_SIZE

PictureFrom(d, t) ==
    LET vector(path) ==
            LET r == LoadSvg(d, path)
            IN  render_svg_cropped(
                    r, t, get_svg_content_bounds(r, DEFAULT_RENDER_SIZE))
    IN  CASE SourceKind(t) = "png" ->
                 render_png_to_bounds(LoadImage(d, t.override_path), t)
          [] SourceKind(t) = "vector" -> vector(t.override_path)
          [] OTHER -> vector(svg_input.svg_path)

\* the source of the target is not a file that generation writes
SourceIsArt(t) ==
    t.override_path = None \/ t.override_path \in DOMAIN ArtFiles

\* the run wrote over the file the picture it is made of
SameAsBefore(k) ==
    attempts[k].saved => attempts[k].before = PngFile(attempts[k].image)

C24_SameSizeForSameFile ==
    \A k \in DOMAIN targets :
        \A layer \in {"foreground", "background"} :
            LET lt == get_layer_targets(disk, layer)
            IN  \A j \in DOMAIN lt :
                    lt[j].path = targets[k].path =>
                        /\ targets[k].width = lt[j].size
                        /\ targets[k].height = lt[j].size

\* the default source of the call decodes (a PNG) or parses (an SVG)
DefaultSourceLoads ==
    IF SuffixLower(target.source_path) = ".svg"
    THEN LoadSvg(result.before, target.source_path).valid
    ELSE ~LoadImage(result.before, target.source_path).null

LayerTargets == get_layer_targets(result.before, target.layer)

\* the files the call wrote
FilesSaved ==
    {p \in DOMAIN disk :
        p \notin DOMAIN result.before \/ disk[p] # result.before[p]}

\* C29: after replace_layer, replace_layer_from_svg or
\* replace_layer_with_overrides: when the default source loads and a layer
\* target exists, success_count + len(error_messages) is the number of
\* layer targets and success_count is the number of files saved;
\* otherwise the call returns (0, [one message]) and writes no file.
\* replace_layer_with_overrides does not load an SVG default source before
\* its loop, so with a default SVG that does not parse it goes through the
\* targets, writes those that have an override and appends one message
\* for each of the others.
C29_EveryTargetAccountedOnce ==
    result.fn \in {"replace_layer", "replace_layer_from_svg",
                   "replace_layer_with_overrides"} =>
        IF DefaultSourceLoads /\ LayerTargets # <<>>
        THEN /\ result.val.success + Len(result.val.errors)
                    = Len(LayerTargets)
             /\ result.val.success = Cardinality(FilesSaved)
        ELSE /\ result.val.success = 0
             /\ Len(result.val.errors) = 1
             /\ FilesSaved = {}

\* C25: the picture the run makes for a selected target is the picture
\* the preview shows for it, for every override and default SVG.  The
\* preview returns None for an override that does not decode or parse;
\* generation renders a transparent canvas for it and writes that.
C25_PreviewIsGeneration ==
    \A k \in DOMAIN attempts :
        attempts[k].image = render_preview_image(disk, selected[k], svg_input)

\* C26: when the loop of a run is over, the count K that the run reports
\* (Finish puts len(selected) - len(errors) in the dialog and in the
\* status text) is the number of target files the run wrote, also for a
\* run with failures and for a run that was cancelled.  K counts the
\* targets that a cancelled run never reached as generated.
C26_ReportedCountIsFilesWritten ==
    pc = "finish" => Len(selected) - Len(errors) = Cardinality(Written)

\* the dialogs of the guards of _generate_icons
GuardDialogs == {"No Targets", "Missing Source", "Confirm Replace"}

\* a checked row exists, and every checked row has an override or the
\* default SVG is loaded
GuardsPass ==
    /\ \E row \in Rows : checked[row]
    /\ \A row \in Rows :
           checked[row] =>
               \/ targets[row].override_path # None
               \/ svg_input.svg_renderer # None

GuardsStep ==
    /\ (pc = "idle" /\ report'.dialog \in GuardDialogs) =>
           /\ disk' = disk
           /\ targets' = targets
           /\ pc' = "idle"
           /\ (report'.dialog = "No Targets") = ~(\E row \in Rows : checked[row])
           /\ (report'.dialog = "Confirm Replace") => GuardsPass
    /\ (pc = "idle" /\ pc' # "idle") => GuardsPass
    /\ disk' # disk => pc = "render"

\* C27: _generate_icons writes no file unless every guard passes: a call
\* that ends in the dialog of a guard (no target checked, a checked target
\* without override and without default SVG, a confirmation not answered
\* Yes) leaves every file and every target as it was, a run starts only
\* when a row is checked and every checked row has a source, and files
\* are written only inside a run.
C27_NoFileUnlessGuardsPass == [][GuardsStep]_vars

\* the guard found a checked target without a source and the call ended
C27_Witness ==
    /\ report.dialog = "Missing Source"
    /\ pc = "idle"
    /\ \E row \in Rows : checked[row] /\ targets[row].override_path # None
    /\ \E row \in Rows : checked[row] /\ targets[row].override_path = None

\* the file loads as _set_override loads it
LoadsAsOverride(path) ==
    /\ path # None
    /\ IF SuffixLower(path) = ".png"
       THEN ~LoadImage(disk, path).null
       ELSE LoadSvg(disk, path).valid

\* the targets with the override of the rows set to path
WithOverride(rows, path) ==
    [k \in DOMAIN targets |->
        IF k \in rows
        THEN [targets[k] EXCEPT !.override_path = path]
        ELSE targets[k]]

OverrideStep ==
    /\ report'.dialog \in {"No Selection", "Invalid File"} =>
           targets' = targets
    /\ targets' # targets =>
           /\ pc = "idle"
           /\ \E rows \in SUBSET Rows \ {{}} :
                  \/ targets' = WithOverride(rows, None)
                  \/ \E path \in DOMAIN disk :
                         /\ LoadsAsOverride(path)
                         /\ targets' = WithOverride(rows, path)

AppliedToColoredFile ==
    /\ result.fn = "_apply_notification_color"
    /\ result.io = "ok"
    /\ IsHexColor(Strip(target.color_input))
    /\ \E k \in DOMAIN result.val : MatchesSetColor(result.val[k])

\* C30: for a valid colour and a helper file that holds a matching
\* setColor call, _apply_notification_color reports success and the colour
\* that _load_current_notification_color then reads is that colour in
\* upper case, also when the colour is the one the file already holds.
\* Applying the colour that every matching call of the file already has
\* leaves new_content equal to content, and the handler shows "Could Not
\* Apply" instead of the success message.
C30_ApplyThenReadBack ==
    AppliedToColoredFile =>
        /\ report.dialog = "Success"
        /\ LoadedColor(disk[JavaHelperPath].text)
               = Upper(Strip(target.color_input))

====
